---- MODULE Spec2Model ----
(***************************************************************************)
(* A model of the Dockerfile rewriting engine (DockerfileConverter) and of *)
(* the grype scan-result cache (scanImage).                                *)
(*                                                                         *)
(* Text representation.  TLC has no character-level strings, so a line of  *)
(* text is a record [indent, toks]: the number of leading blanks and the   *)
(* sequence of its whitespace-separated words.  A word (token) is the      *)
(* sequence of its lexical atoms: maximal runs of digits, maximal runs of  *)
(* letters, and single punctuation characters.  "node:18-alpine" is        *)
(* <<"node", ":", "18", "-", "alpine">>.  Two texts are equal exactly when *)
(* their representations are equal, for texts whose whitespace runs are    *)
(* single blanks and that carry no trailing blanks.  Regular expressions   *)
(* of the source are evaluated on this representation word by word.        *)
(***************************************************************************)
EXTENDS Integers, Sequences, FiniteSets, TLC

VARIABLES
    \* ---- DockerfileConverter.convert: locals of one call ----
    lines,              \* content.split('\n')
    i,                  \* loop index (0-based, as in the source)
    converted,          \* output lines
    changes,            \* Change records
    needsUserRoot,      \* USER root already injected in this stage
    stageHasRun,        \* lookahead result for the current stage
    currentStageStart,  \* index of the current stage's FROM
    pc,                 \* "loop" | "done" | "raised"
    pass,               \* 1: convert(M); 2: convert(convert(M).converted)
    log,                \* history: one record per instruction processed
    \* ---- grype-scanner: module state and the calls in flight ----
    scanCache,          \* Map<string, CVEScanResult>
    now,                \* Date.now(): hours for the scan and feed caches, minutes for ChainctlClient
    calls,              \* per call of scanImage: its position and result
    invocations,        \* history: external `grype <image>` runs started, per image
    probes,             \* history: external `grype version` runs started
    storedAt,           \* history: when the image's entry was last written
    \* ---- grype-scanner: scanImages, locals of one call ----
    batch,              \* images, index of the next chunk, position, results
    \* ---- vex-feed-client: module state and the calls in flight ----
    cachedVexData,      \* Map<string, VexRemediation[]> | null
    vexCacheTimestamp,  \* cacheTimestamp of vex-feed-client (-1: null)
    vexCalls,           \* per call of fetchVexFeed: its position and result
    \* ---- package-search: module state and the calls in flight ----
    cachedPackages,     \* Map<string, WolfiPackage> | null
    wolfiCacheTimestamp,\* cacheTimestamp of package-search (-1: null)
    wolfiCalls,         \* per call of packageExists / verifyPackageMapping
    \* ---- ChainctlClient: static caches and the calls in flight ----
    authenticatedCache, \* boolean | null
    entitlementsCache,  \* Set<string> | null
    chainctlCacheTimestamp,\* cacheTimestamp of ChainctlClient, shared by both caches
    chainctlCalls,      \* per call of isAuthenticated / getEntitlements
    authObtainedAt,     \* history: when authenticatedCache was last obtained from the CLI
    entitlementsObtainedAt,\* history: when entitlementsCache was last obtained from the CLI
    \* ---- CrystalBallClient: fields, the server processes and the calls in flight ----
    installed,          \* isAvailable(): the binary and the database exist
    serverProcess,      \* ChildProcess | null (0: null, n: the process start call n spawned)
    serverReady,        \* boolean
    processes,          \* environment: the spawned processes that have not exited
    startCalls,         \* per call of start: its position and result
    matchCalls,         \* per call of matchImage: its position and result
    \* ---- Slack approval bot (FEATURES.md): the request store and the handlers in flight ----
    requests,           \* Map of request id to request
    repos,              \* environment: createRepo calls served, per request
    approving           \* approve handlers awaiting createRepo: <<user, request>>

cvars == <<lines, i, converted, changes, needsUserRoot, stageHasRun,
           currentStageStart, pc, pass, log>>
svars == <<scanCache, now, calls, invocations, probes, storedAt>>
bvars == <<batch>>
xvars == <<cachedVexData, vexCacheTimestamp, vexCalls>>
wvars == <<cachedPackages, wolfiCacheTimestamp, wolfiCalls>>
kvars == <<authenticatedCache, entitlementsCache, chainctlCacheTimestamp, chainctlCalls, authObtainedAt, entitlementsObtainedAt>>
mvars == <<installed, serverProcess, serverReady, processes, startCalls, matchCalls>>
lvars == <<requests, repos, approving>>
vars == <<cvars, svars, bvars, xvars, wvars, kvars, mvars, lvars>>

(***************************************************************************)
(* Bounds                                                                  *)
(***************************************************************************)
MaxLines == 3

(***************************************************************************)
(* Words and lines                                                         *)
(***************************************************************************)
W(a) == <<a>>
Ln(ind, toks) == [indent |-> ind, toks |-> toks]
EmptyLine == Ln(0, <<>>)

FROM == W("FROM")
RUN == W("RUN")
AND == W("&&")
BS == W("\\")
DASH_Y == <<"-", "y">>
APT_GET == <<"apt", "-", "get">>
APT == W("apt")
DNF == W("dnf")
YUM == W("yum")
MICRODNF == W("microdnf")
INSTALL == W("install")
UPDATE == W("update")
CLEAN == W("clean")
ALL == W("all")
RM == W("rm")
DASH_RF == <<"-", "rf">>
APT_LISTS == <<"/", "var", "/", "lib", "/", "apt", "/", "lists">>
USERADD == W("useradd")
GROUPADD == W("groupadd")
DASH_R == <<"-", "r">>
UserRootLine == Ln(0, <<W("USER"), W("root")>>)

DigitAtoms == {"0", "1", "2", "3", "7", "11", "18", "19", "20", "22", "04"}

\* String.prototype.toUpperCase on the atoms that spell an instruction keyword
Upper(a) ==
    CASE a = "from" -> "FROM"
      [] a = "run" -> "RUN"
      [] OTHER -> a

\* s.startsWith(kw) for an atom: the keyword itself or a longer word it begins
AtomStartsWith(a, kw) ==
    \/ a = kw
    \/ <<a, kw>> \in {<<"FROMAGE", "FROM">>, <<"RUNNER", "RUN">>,
                      <<"nodejs", "node">>, <<"golangci", "golang">>}

\* line.trim().toUpperCase().startsWith(kw)
TrimmedUpperStartsWith(line, kw) ==
    /\ line.toks # <<>>
    /\ Head(line.toks) # <<>>
    /\ AtomStartsWith(Upper(Head(Head(line.toks))), kw)

\* s.includes(word), for a word that is a single atom
IncludesAtom(line, a) ==
    \E k \in 1..Len(line.toks) : \E j \in 1..Len(line.toks[k]) : line.toks[k][j] = a

\* tok.includes(pat) on atoms: pat is a contiguous run of tok
TokIncludes(tok, pat) ==
    \E k \in 0..(Len(tok) - Len(pat)) : SubSeq(tok, k + 1, k + Len(pat)) = pat

TokStartsWith(tok, pre) ==
    /\ Len(pre) <= Len(tok)
    /\ SubSeq(tok, 1, Len(pre)) = pre

TokEndsWith(tok, suf) ==
    /\ Len(suf) <= Len(tok)
    /\ SubSeq(tok, Len(tok) - Len(suf) + 1, Len(tok)) = suf

\* position of the first ":" of a word, 0 when it has none
FirstColon(tok) ==
    IF \E k \in 1..Len(tok) : tok[k] = ":"
    THEN CHOOSE k \in 1..Len(tok) : tok[k] = ":" /\ \A j \in 1..(k - 1) : tok[j] # ":"
    ELSE 0

(***************************************************************************)
(* Mapping table (MappingsConfig): images in registration order, packages  *)
(* per source distribution.                                                *)
(***************************************************************************)
CHAINGUARD_BASE == <<"chainguard", "-", "base">>

MappingsImages ==
    << <<W("alpine"), CHAINGUARD_BASE>>,
       <<W("node"), W("node")>>,
       <<<<"golang", "*">>, W("go")>> >>

MappingsPackages ==
    [debian |-> << <<<<"python", "3", "-", "pip">>, <<<<"py", "3", "-", "pip">>>>>> >>,
     fedora |-> << <<<<"python", "3", "-", "pip">>, <<<<"py", "3", "-", "pip">>>>>> >>]

\* Properties every plain JavaScript object inherits from Object.prototype;
\* the number is Function.length (-1: the value is not a function).
ObjectPrototypeKeys ==
    { <<W("constructor"), 1>>, <<W("toString"), 0>>, <<W("valueOf"), 0>>,
      <<W("hasOwnProperty"), 1>>, <<W("__proto__"), -1>> }

IsPrototypeKey(key) == \E e \in ObjectPrototypeKeys : e[1] = key

\* this.mappings.images[key]: an own entry, an inherited property, or undefined
ImagesGet(key) ==
    IF \E k \in 1..Len(MappingsImages) : MappingsImages[k][1] = key
    THEN [kind |-> "string",
          val |-> MappingsImages[CHOOSE k \in 1..Len(MappingsImages) :
                                     MappingsImages[k][1] = key][2]]
    ELSE IF IsPrototypeKey(key)
         THEN [kind |-> "object", val |-> <<>>]
         ELSE [kind |-> "undefined", val |-> <<>>]

Truthy(v) == v.kind = "object" \/ (v.kind = "string" /\ v.val # <<>>)

\* pattern.endsWith('*') && baseImage.startsWith(pattern.slice(0, -1))
WildcardMatches(pattern, baseImage) ==
    /\ pattern # <<>>
    /\ pattern[Len(pattern)] = "*"
    /\ LET prefix == SubSeq(pattern, 1, Len(pattern) - 1)
           n == Len(prefix)
       IN  \/ n = 0
           \/ /\ n <= Len(baseImage)
              /\ SubSeq(baseImage, 1, n - 1) = SubSeq(prefix, 1, n - 1)
              /\ AtomStartsWith(baseImage[n], prefix[n])

\* the first entry, in registration order, whose wildcard pattern matches
FirstWildcard(baseImage) ==
    LET hits == {k \in 1..Len(MappingsImages) :
                    WildcardMatches(MappingsImages[k][1], baseImage)}
    IN  IF hits = {} THEN 0 ELSE CHOOSE k \in hits : \A j \in hits : k <= j

FindImageMapping(lookupKey, baseImage) ==
    IF Truthy(ImagesGet(lookupKey)) THEN ImagesGet(lookupKey)
    ELSE IF Truthy(ImagesGet(baseImage)) THEN ImagesGet(baseImage)
    ELSE IF FirstWildcard(baseImage) # 0
         THEN [kind |-> "string", val |-> MappingsImages[FirstWildcard(baseImage)][2]]
         ELSE [kind |-> "string", val |-> baseImage]

(***************************************************************************)
(* convertTag                                                              *)
(***************************************************************************)
LATEST == W("latest")
DEV == <<"-", "dev">>

\* length of the longest prefix of tag of the shape \d+(\.\d+)*, 0 when none
RECURSIVE VersionEnd(_, _)
VersionEnd(tag, k) ==
    \* tag[k] is the last digit run accepted so far
    IF k + 2 <= Len(tag) /\ tag[k + 1] = "." /\ tag[k + 2] \in DigitAtoms
    THEN VersionEnd(tag, k + 2)
    ELSE k

VersionPrefix(tag) ==
    IF tag # <<>> /\ tag[1] \in DigitAtoms THEN VersionEnd(tag, 1) ELSE 0

\* tag.match(/^(\d+(?:\.\d+)*)(?:-(.+))?$/)
VersionMatches(tag) ==
    LET e == VersionPrefix(tag)
    IN  /\ e > 0
        /\ \/ e = Len(tag)
           \/ e + 2 <= Len(tag) /\ tag[e + 1] = "-"

\* version.split('.').slice(0, 2).join('.')
Truncated(tag) ==
    LET e == VersionPrefix(tag)
    IN  SubSeq(tag, 1, IF e >= 3 THEN 3 ELSE 1)

\* the tag returned without the suffix
WithoutDev(tag, hasRun) == tag

\* hasRun ? `${...}-dev` : ...
WithDev(tag, hasRun) == IF hasRun THEN tag \o DEV ELSE tag

\* tag = <<>> stands for an absent tag (undefined)
ConvertTag(tag, baseImage, mappedImage, hasRun) ==
    IF TokIncludes(mappedImage, CHAINGUARD_BASE) THEN LATEST
    ELSE IF tag = <<>> \/ tag = LATEST THEN WithDev(LATEST, hasRun)
    ELSE IF ~VersionMatches(tag) THEN WithDev(LATEST, hasRun)
    ELSE WithDev(Truncated(tag), hasRun)

(***************************************************************************)
(* convertFrom                                                             *)
(***************************************************************************)
Org == W("ORG")
CgrPrefix == <<"cgr", ".", "dev", "/">> \o Org \o W("/")
AsWords == {W("AS"), W("as"), W("As"), W("aS")}

\* /^(\s*)FROM\s+([^\s:]+)(?::([^\s]+))?(\s+[Aa][Ss]\s+\S+)?(\s*)$/
FromMatches(line) ==
    /\ Len(line.toks) \in {2, 4}
    /\ line.toks[1] = FROM
    /\ LET ref == line.toks[2]
           c == FirstColon(ref)
       IN  ref # <<>> /\ (c = 0 \/ (c > 1 /\ c < Len(ref)))
    /\ Len(line.toks) = 4 => line.toks[3] \in AsWords

FromImage(line) ==
    LET ref == line.toks[2]
        c == FirstColon(ref)
    IN  IF c = 0 THEN ref ELSE SubSeq(ref, 1, c - 1)

FromTag(line) ==
    LET ref == line.toks[2]
        c == FirstColon(ref)
    IN  IF c = 0 THEN <<>> ELSE SubSeq(ref, c + 1, Len(ref))

\* mappedImage.split(':')[0]
BeforeColon(tok) == IF FirstColon(tok) = 0 THEN tok ELSE SubSeq(tok, 1, FirstColon(tok) - 1)

\* The result carries `raised`: mappedImage.split throws a TypeError when the
\* lookup handed back an inherited Object.prototype property instead of a string.
ConvertFrom(line, hasRun) ==
    IF ~FromMatches(line) THEN [raised |-> FALSE, line |-> line]
    ELSE LET image == FromImage(line)
             tag == FromTag(line)
             lookupKey == line.toks[2]
             mapped == FindImageMapping(lookupKey, image)
         IN  IF mapped.kind # "string" THEN [raised |-> TRUE, line |-> line]
             ELSE LET newTag == ConvertTag(tag, image, mapped.val, hasRun)
                      ref == CgrPrefix \o BeforeColon(mapped.val) \o W(":") \o newTag
                  IN  [raised |-> FALSE,
                       line |-> Ln(line.indent,
                                   <<FROM, ref>> \o SubSeq(line.toks, 3, Len(line.toks)))]

\* checkStageHasRun(lines, fromIndex), indices 0-based
StageEnd(ls, fromIndex) ==
    LET froms == {k \in (fromIndex + 1)..(Len(ls) - 1) :
                     TrimmedUpperStartsWith(ls[k + 1], "FROM")}
    IN  IF froms = {} THEN Len(ls) ELSE CHOOSE k \in froms : \A j \in froms : k <= j

\* the lookahead starting one line too late
CheckStageHasRunLate(ls, fromIndex) ==
    \E k \in (fromIndex + 2)..(StageEnd(ls, fromIndex) - 1) :
        TrimmedUpperStartsWith(ls[k + 1], "RUN")

CheckStageHasRun(ls, fromIndex) ==
    \E k \in (fromIndex + 1)..(StageEnd(ls, fromIndex) - 1) :
        TrimmedUpperStartsWith(ls[k + 1], "RUN")

(***************************************************************************)
(* convertUserManagement: three global replacements, in this order         *)
(***************************************************************************)
ADDUSER == W("adduser")
ADDGROUP == W("addgroup")

\* a word ending in `word`, with that ending replaced by `by`
ReplaceEnding(tok, word, by) == SubSeq(tok, 1, Len(tok) - Len(word)) \o by

\* .replace(/useradd\s+-r\s+/g, 'adduser -S ')
RECURSIVE ReplaceUseraddR(_)
ReplaceUseraddR(toks) ==
    IF toks = <<>> THEN <<>>
    ELSE IF Len(toks) >= 3 /\ TokEndsWith(toks[1], USERADD) /\ toks[2] = DASH_R
         THEN <<ReplaceEnding(toks[1], USERADD, ADDUSER), <<"-", "S">>>>
                  \o ReplaceUseraddR(SubSeq(toks, 3, Len(toks)))
         ELSE <<Head(toks)>> \o ReplaceUseraddR(Tail(toks))

\* .replace(/useradd\s+/g, 'adduser -D ') and .replace(/groupadd\s+/g, 'addgroup ')
RECURSIVE ReplaceWordBeforeBlank(_, _, _)
ReplaceWordBeforeBlank(toks, word, by) ==
    IF toks = <<>> THEN <<>>
    ELSE IF Len(toks) >= 2 /\ TokEndsWith(toks[1], word)
         THEN <<SubSeq(toks[1], 1, Len(toks[1]) - Len(word)) \o by[1]>> \o Tail(by)
                  \o ReplaceWordBeforeBlank(Tail(toks), word, by)
         ELSE <<Head(toks)>> \o ReplaceWordBeforeBlank(Tail(toks), word, by)

ConvertUserManagement(line) ==
    LET a == ReplaceUseraddR(line.toks)
        b == ReplaceWordBeforeBlank(a, USERADD, <<ADDUSER, <<"-", "D">>>>)
        c == ReplaceWordBeforeBlank(b, GROUPADD, <<ADDGROUP>>)
    IN  Ln(line.indent, c)

(***************************************************************************)
(* Package extraction and mapping                                          *)
(***************************************************************************)
AptManagers == {APT_GET, APT}
DnfManagers == {DNF, YUM, MICRODNF}

EndsWithOneOf(tok, words) == \E w \in words : TokEndsWith(tok, w)

\* /(?:apt-get|apt)\s+.*install/ and /(?:dnf|yum|microdnf)\s+.*install/
InstallTest(toks, managers) ==
    \E k \in 1..Len(toks) :
        /\ EndsWithOneOf(toks[k], managers)
        /\ \E j \in (k + 1)..Len(toks) : TokIncludes(toks[j], INSTALL)

\* Where the captured package list of the extraction pattern starts when the
\* manager word is toks[k]: 0 when the pattern does not match there.
\*   apt: (?:apt-get|apt)\s+install\s+(?:-y\s+)?(.+?)
\*   dnf: (?:dnf|yum|microdnf)\s+(?:-y\s+)?install\s+(?:-y\s+)?(.+?)
ListStart(toks, k, managers, flagFirst) ==
    LET n == Len(toks)
        afterFlag == IF flagFirst /\ k + 2 <= n /\ toks[k + 1] = DASH_Y /\ toks[k + 2] = INSTALL
                     THEN k + 2
                     ELSE k + 1
        inst == IF afterFlag <= n /\ toks[afterFlag] = INSTALL THEN afterFlag ELSE 0
        first == IF inst # 0 /\ inst + 2 <= n /\ toks[inst + 1] = DASH_Y
                 THEN inst + 2
                 ELSE inst + 1
    IN  IF EndsWithOneOf(toks[k], managers) /\ inst # 0 /\ first <= n THEN first ELSE 0

\* (.+?)(?:\s*(?:&&|\\|$)): the list runs to the first && or \ after its first word
ListEnd(toks, first) ==
    LET stops == {k \in (first + 1)..Len(toks) : toks[k] \in {AND, BS}}
    IN  IF stops = {} THEN Len(toks) ELSE (CHOOSE k \in stops : \A j \in stops : k <= j) - 1

\* .filter(p => p && p !== '-y' && !p.startsWith('-') && p !== '\\')
RECURSIVE FilterPackages(_)
FilterPackages(toks) ==
    IF toks = <<>> THEN <<>>
    ELSE IF Head(toks) = <<>> \/ Head(Head(toks)) = "-" \/ Head(toks) = BS
         THEN FilterPackages(Tail(toks))
         ELSE <<Head(toks)>> \o FilterPackages(Tail(toks))

ExtractPackages(toks, managers, flagFirst) ==
    LET hits == {k \in 1..Len(toks) : ListStart(toks, k, managers, flagFirst) # 0}
    IN  IF hits = {} THEN <<>>
        ELSE LET k == CHOOSE h \in hits : \A j \in hits : h <= j
                 first == ListStart(toks, k, managers, flagFirst)
             IN  FilterPackages(SubSeq(toks, first, ListEnd(toks, first)))

ExtractAptPackages(line) == ExtractPackages(line.toks, AptManagers, FALSE)
ExtractDnfPackages(line) == ExtractPackages(line.toks, DnfManagers, TRUE)

\* this.mappings.packages[distro]?.[pkg], then mapping[0] when mapping.length > 0.
\* An inherited function of length > 0 has no element 0: the result is
\* undefined, which join(' ') renders as the empty word.
MapPackage(pkg, table) ==
    IF \E k \in 1..Len(table) : table[k][1] = pkg
    THEN LET m == table[CHOOSE k \in 1..Len(table) : table[k][1] = pkg][2]
         IN  IF Len(m) > 0 THEN m[1] ELSE pkg
    ELSE IF \E e \in ObjectPrototypeKeys : e[1] = pkg /\ e[2] > 0 THEN <<>>
    ELSE pkg

MapPackages(packages, distro) ==
    [k \in 1..Len(packages) |-> MapPackage(packages[k], MappingsPackages[distro])]

RECURSIVE DropEmptyWords(_)
DropEmptyWords(toks) ==
    IF toks = <<>> THEN <<>>
    ELSE IF Head(toks) = <<>> THEN DropEmptyWords(Tail(toks))
    ELSE <<Head(toks)>> \o DropEmptyWords(Tail(toks))

\* `${indent}RUN apk add --no-cache ${mapped.join(' ')}`
ApkAdd(indent, mapped) ==
    Ln(indent, <<RUN, W("apk"), W("add"), <<"-", "-", "no", "-", "cache">>>>
                   \o DropEmptyWords(mapped))

(***************************************************************************)
(* Index-refresh / clean commands                                          *)
(***************************************************************************)
HasRunOf(toks, pat) ==
    \E k \in 0..(Len(toks) - Len(pat)) :
        /\ \A j \in 1..(Len(pat) - 1) :
              IF j = 1 THEN TokEndsWith(toks[k + 1], pat[1]) ELSE toks[k + j] = pat[j]
        /\ IF Len(pat) = 1 THEN TokIncludes(toks[k + 1], pat[1])
           ELSE TokStartsWith(toks[k + Len(pat)], pat[Len(pat)])

\* converted.includes('apt-get update') || ... || includes('rm -rf /var/lib/apt/lists')
MentionsMaintenance(line) ==
    \E pat \in { <<APT_GET, UPDATE>>, <<APT, UPDATE>>, <<DNF, DASH_Y, UPDATE>>,
                 <<YUM, UPDATE>>, <<DNF, CLEAN>>, <<YUM, CLEAN>>,
                 <<RM, DASH_RF, APT_LISTS>> } : HasRunOf(line.toks, pat)

\* /^RUN\s+(apt-get|apt|dnf|yum)\s+(-y\s+)?(update|clean)(\s+all)?(\s*&&\s*)?$/
OnlyMaintenance(line) ==
    LET t == line.toks
        n == Len(t)
        a == IF n >= 3 /\ t[3] = DASH_Y THEN 4 ELSE 3       \* update | clean
        b == IF a + 1 <= n /\ t[a + 1] = ALL THEN a + 1 ELSE a
        c == IF b + 1 <= n /\ t[b + 1] = AND THEN b + 1 ELSE b
    IN  /\ n >= 3
        /\ t[1] = RUN
        /\ t[2] \in {APT_GET, APT, DNF, YUM}
        /\ a <= n
        /\ t[a] \in {UPDATE, CLEAN}
        /\ c = n

\* s.replace(/<pat>/g, ''), for a pattern that is a run of whole words
RECURSIVE RemoveRuns(_, _)
RemoveRuns(toks, pats) ==
    IF toks = <<>> THEN <<>>
    ELSE IF \E p \in pats : Len(p) <= Len(toks) /\ SubSeq(toks, 1, Len(p)) = p
         THEN LET p == CHOOSE q \in pats : Len(q) <= Len(toks) /\ SubSeq(toks, 1, Len(q)) = q
              IN  RemoveRuns(SubSeq(toks, Len(p) + 1, Len(toks)), pats)
         ELSE <<Head(toks)>> \o RemoveRuns(Tail(toks), pats)

\* the seven chained replacements of convertRun, in source order
StripMaintenance(line) ==
    LET r1 == RemoveRuns(line.toks, {<<APT_GET, UPDATE, AND>>})
        r2 == RemoveRuns(r1, {<<APT, UPDATE, AND>>})
        r3 == RemoveRuns(r2, {<<DNF, DASH_Y, UPDATE, AND>>})
        r4 == RemoveRuns(r3, {<<YUM, UPDATE, AND>>})
        r5 == RemoveRuns(r4, {<<AND, DNF, CLEAN, ALL>>})
        r6 == RemoveRuns(r5, {<<AND, YUM, CLEAN, ALL>>})
        r7 == RemoveRuns(r6, {<<AND, RM, DASH_RF, APT_LISTS \o tail>> :
                                  tail \in {<<>>, <<"/">>, <<"*">>, <<"/", "*">>}})
    IN  Ln(line.indent, r7)

(***************************************************************************)
(* convertRun                                                              *)
(***************************************************************************)
MentionsUserManagement(line) == IncludesAtom(line, "useradd") \/ IncludesAtom(line, "groupadd")

RECURSIVE ConvertRun(_)
ConvertRun(line) ==
    LET conv == IF MentionsUserManagement(line) THEN ConvertUserManagement(line) ELSE line
        apt == ExtractAptPackages(conv)
        dnf == ExtractDnfPackages(conv)
    IN  IF InstallTest(conv.toks, AptManagers) /\ Len(apt) > 0
        THEN [converted |-> ApkAdd(conv.indent, MapPackages(apt, "debian")), needsRoot |-> TRUE]
        ELSE IF InstallTest(conv.toks, DnfManagers) /\ Len(dnf) > 0
        THEN [converted |-> ApkAdd(conv.indent, MapPackages(dnf, "fedora")), needsRoot |-> TRUE]
        ELSE IF MentionsMaintenance(conv) /\ OnlyMaintenance(conv)
        THEN [converted |-> EmptyLine, needsRoot |-> FALSE]
        ELSE IF MentionsMaintenance(conv) /\ StripMaintenance(conv) # conv
        THEN ConvertRun(StripMaintenance(conv))
        ELSE [converted |-> conv, needsRoot |-> FALSE]

(***************************************************************************)
(* readMultilineCommand / formatMultilineCommand                           *)
(***************************************************************************)
\* fullCommand.trimEnd().endsWith('\\')
EndsWithBackslash(line) ==
    /\ line.toks # <<>>
    /\ line.toks[Len(line.toks)] # <<>>
    /\ LET last == line.toks[Len(line.toks)] IN last[Len(last)] = "\\"

\* fullCommand.trimEnd().slice(0, -1) + ' ' + next.trim()
JoinContinuation(full, next) ==
    LET n == Len(full.toks)
        last == full.toks[n]
        kept == IF Len(last) = 1 THEN SubSeq(full.toks, 1, n - 1)
                ELSE SubSeq(full.toks, 1, n - 1) \o <<SubSeq(last, 1, Len(last) - 1)>>
    IN  Ln(full.indent, kept \o next.toks)

RECURSIVE ReadMore(_, _, _, _)
ReadMore(ls, startIndex, fullCommand, lineCount) ==
    IF startIndex + lineCount < Len(ls) /\ EndsWithBackslash(fullCommand)
    THEN ReadMore(ls, startIndex,
                  JoinContinuation(fullCommand, ls[startIndex + lineCount + 1]),
                  lineCount + 1)
    ELSE [fullCommand |-> fullCommand, lineCount |-> lineCount]

ReadMultilineCommand(ls, startIndex) == ReadMore(ls, startIndex, ls[startIndex + 1], 1)

\* number of characters of an atom
AtomLen(a) ==
    CASE a \in {"-", ".", ":", "/", "*", "\\", "y", "r", "S", "D", "0", "1", "2", "3", "7"} -> 1
      [] a \in {"&&", "hi", "no", "py", "AS", "as", "As", "aS", "04", "11", "18", "19", "20",
                "22"} -> 2
      [] a \in {"RUN", "run", "apt", "get", "dnf", "yum", "apk", "add", "app", "dev",
                "cgr", "ORG", "pip", "all", "var", "lib", "rc1"} -> 3
      [] a \in {"FROM", "from", "USER", "COPY", "curl", "make", "echo", "node",
                "root", "base", "git"} -> 4
      [] a \in {"clean", "cache", "lists"} -> 5
      [] a \in {"update", "alpine", "latest", "python", "golang"} -> 6
      [] a \in {"install", "useradd", "adduser", "builder", "scratch"} -> 7
      [] a \in {"groupadd", "addgroup", "microdnf", "toString"} -> 8
      [] a \in {"undefined"} -> 9
      [] a \in {"chainguard"} -> 10
      [] a \in {"constructor"} -> 11

RECURSIVE TokLen(_)
TokLen(tok) == IF tok = <<>> THEN 0 ELSE AtomLen(Head(tok)) + TokLen(Tail(tok))

\* length of words joined by single blanks
RECURSIVE TextLen(_)
TextLen(toks) ==
    IF toks = <<>> THEN 0
    ELSE IF Len(toks) = 1 THEN TokLen(toks[1])
    ELSE TokLen(Head(toks)) + 1 + TextLen(Tail(toks))

LongCommand == 80

\* rest.split('&&').map(p => p.trim()).filter(p => p)
RECURSIVE SplitOnAnd(_, _)
SplitOnAnd(toks, cur) ==
    IF toks = <<>> THEN (IF cur = <<>> THEN <<>> ELSE <<cur>>)
    ELSE IF Head(toks) = AND
         THEN (IF cur = <<>> THEN <<>> ELSE <<cur>>) \o SplitOnAnd(Tail(toks), <<>>)
         ELSE SplitOnAnd(Tail(toks), Append(cur, Head(toks)))

ContinuationIndent == 4

FormatMultilineCommand(command, originalLineCount) ==
    IF originalLineCount = 1 THEN <<command>>
    ELSE IF ~(Len(command.toks) >= 2 /\ command.toks[1] = RUN) THEN <<command>>
    ELSE LET rest == Tail(command.toks)
             parts == SplitOnAnd(rest, <<>>)
             n == Len(parts)
             ind == command.indent
         IN  IF TextLen(rest) < LongCommand /\ ~(\E k \in 1..Len(rest) : TokIncludes(rest[k], AND))
             THEN <<command>>
             ELSE IF n = 1 THEN <<command>>
             ELSE IF n = 0
                  THEN <<Ln(ind, <<RUN, W("undefined"), BS>>),
                         Ln(ind + ContinuationIndent, <<AND, W("undefined")>>)>>
                  ELSE [k \in 1..n |->
                          IF k = 1 THEN Ln(ind, <<RUN>> \o parts[1] \o <<BS>>)
                          ELSE IF k < n
                               THEN Ln(ind + ContinuationIndent, <<AND>> \o parts[k] \o <<BS>>)
                               ELSE Ln(ind + ContinuationIndent, <<AND>> \o parts[k])]

(***************************************************************************)
(* Inputs: manifests of at most MaxLines lines over this vocabulary        *)
(***************************************************************************)
CURL == W("curl")
NODE_18_ALPINE == <<"node", ":", "18", "-", "alpine">>
ALPINE_3_19 == <<"alpine", ":", "3", ".", "19">>
PYTHON_3_11_0RC1 == <<"python", ":", "3", ".", "11", ".", "0", "rc1">>

LineVocab ==
    { Ln(0, <<FROM, NODE_18_ALPINE>>),
      Ln(0, <<FROM, ALPINE_3_19>>),
      Ln(0, <<FROM, W("constructor")>>),
      Ln(0, <<FROM, PYTHON_3_11_0RC1>>),
      Ln(0, <<FROM, W("golang"), W("AS"), W("builder")>>),
      Ln(0, <<FROM, W("builder")>>),
      Ln(0, <<FROM, W("scratch")>>),
      Ln(0, <<RUN, APT_GET, INSTALL, DASH_Y, CURL>>),
      Ln(0, <<RUN, APT_GET, INSTALL, DASH_Y, W("constructor"), CURL>>),
      Ln(0, <<RUN, APT_GET, UPDATE, AND, APT_GET, INSTALL, DASH_Y, CURL, AND, W("make")>>),
      Ln(0, <<RUN, APT_GET, UPDATE, AND, APT_GET, CLEAN>>),
      Ln(0, <<RUN, APT_GET, UPDATE>>),
      Ln(0, <<RUN, APT_GET, INSTALL, DASH_Y, CURL, AND, USERADD, DASH_R, W("app")>>),
      Ln(0, <<RUN, W("echo"), W("hi"), BS>>),
      Ln(4, <<AND, USERADD, DASH_R, W("app")>>),
      Ln(0, <<W("USER"), W("app")>>) }

Manifests == UNION {[1..n -> LineVocab] : n \in 1..MaxLines}

(***************************************************************************)
(* grype-scanner: results, and the state while no scan is in progress      *)
(***************************************************************************)
MaxCalls == 3
MaxTime == 36
TickHours == 12
\* 1000 * 60 * 60 * 24 ms; the model's clock counts hours
SCAN_CACHE_TTL == 24

Images == {"img1", "img2"}
CallIds == 1..MaxCalls

\* A CVEScanResult.  present = FALSE: no entry (Map.get gives undefined);
\* error = "": no error field; scannedAt = -1: no scannedAt field.
Result(cve, counts, scanning, error, at) ==
    [present |-> TRUE, cveCount |-> cve, critical |-> counts[1], high |-> counts[2],
     medium |-> counts[3], low |-> counts[4], negligible |-> counts[5],
     scanning |-> scanning, error |-> error, scannedAt |-> at]
NoCounts == <<0, 0, 0, 0, 0>>
Absent == [Result(0, NoCounts, FALSE, "", -1) EXCEPT !.present = FALSE]
InProgress == Result(0, NoCounts, TRUE, "", -1)
NotInstalled == Result(-1, NoCounts, FALSE, "grype not installed", -1)
Failed(message) == Result(-1, NoCounts, FALSE, message, -1)

IdleCall == [pc |-> "idle", image |-> "", result |-> Absent, pendingOnArrival |-> FALSE,
             failedOnArrival |-> FALSE, probed |-> FALSE, invoked |-> FALSE,
             readAt |-> -1]

ScannerIdle ==
    /\ scanCache = [img \in Images |-> Absent]
    /\ now = 0
    /\ calls = [c \in CallIds |-> IdleCall]
    /\ invocations = [img \in Images |-> 0]
    /\ probes = 0
    /\ storedAt = [img \in Images |-> -1]

(***************************************************************************)
(* scanImages, vex-feed-client, package-search: data and idle states       *)
(***************************************************************************)
MaxBatch == 4
MaxFeedCalls == 2
MaxFeedTime == 2

\* scanImages has not been called
BatchIdle == batch = [images |-> <<>>, i |-> 0, pc |-> "idle", results |-> {}]

\* a Map or null: populated = FALSE is null
NullMap == [populated |-> FALSE, data |-> {}]
MapOf(keys) == [populated |-> TRUE, data |-> keys]
EmptyMap == MapOf({})

FeedCallIds == 1..MaxFeedCalls

IdleVexCall == [pc |-> "idle", outcome |-> "", raised |-> FALSE, result |-> NullMap,
                packageName |-> <<>>, ecosystem |-> "", remediations |-> <<>>,
                firstUse |-> FALSE, cacheLeft |-> NullMap]
VexIdle ==
    /\ cachedVexData = NullMap
    /\ vexCacheTimestamp = -1
    /\ vexCalls = [c \in FeedCallIds |-> IdleVexCall]

IdleWolfiCall == [pc |-> "idle", op |-> "", name |-> "", outcome |-> "",
                  raised |-> FALSE, exists |-> FALSE]
WolfiIdle ==
    /\ cachedPackages = NullMap
    /\ wolfiCacheTimestamp = -1
    /\ wolfiCalls = [c \in FeedCallIds |-> IdleWolfiCall]

MaxChainctlCalls == 3
MaxChainctlTime == 8
ChainctlTickMinutes == 2

ChainctlCallIds == 1..MaxChainctlCalls

\* a Set<string> or null: populated = FALSE is null
NullSet == [populated |-> FALSE, data |-> {}]
SetOf(members) == [populated |-> TRUE, data |-> members]

IdleChainctlCall == [pc |-> "idle", kind |-> "", fromCache |-> FALSE, age |-> 0,
                     result |-> "null"]
\* authenticatedCache is "null", "true" or "false"; cacheTimestamp starts at 0,
\* and the clock starts late enough for 0 to be expired
ChainctlIdle ==
    /\ authenticatedCache = "null"
    /\ entitlementsCache = NullSet
    /\ chainctlCacheTimestamp = -1
    /\ chainctlCalls = [c \in ChainctlCallIds |-> IdleChainctlCall]
    /\ authObtainedAt = -1
    /\ entitlementsObtainedAt = -1

MaxStartCalls == 2
MaxMatchCalls == 2
StartCallIds == 1..MaxStartCalls
MatchCallIds == 1..MaxMatchCalls
IdleStartCall == [pc |-> "idle", result |-> FALSE]
\* ready and response are history: serverReady as the call found it, and the
\* answer its request got
IdleMatchCall == [pc |-> "idle", result |-> "", raised |-> FALSE,
                  ready |-> FALSE, response |-> ""]
CrystalBallIdle ==
    /\ installed = FALSE
    /\ serverProcess = 0
    /\ serverReady = FALSE
    /\ processes = {}
    /\ startCalls = [c \in StartCallIds |-> IdleStartCall]
    /\ matchCalls = [c \in MatchCallIds |-> IdleMatchCall]

MaxRequests == 2
RequestIds == 1..MaxRequests
\* errorShown is history: an approve handler reported a provisioning error
NoRequest == [status |-> "none", by |-> "", errorShown |-> FALSE]
SlackIdle ==
    /\ requests = [r \in RequestIds |-> NoRequest]
    /\ repos = [r \in RequestIds |-> 0]
    /\ approving = {}

OthersIdle == BatchIdle /\ VexIdle /\ WolfiIdle /\ ChainctlIdle /\ CrystalBallIdle /\ SlackIdle

(***************************************************************************)
(* convert: one action per iteration of the loop over the lines            *)
(***************************************************************************)
Init ==
    /\ lines \in Manifests
    /\ i = 0
    /\ converted = <<>>
    /\ changes = <<>>
    /\ needsUserRoot = FALSE
    /\ stageHasRun = FALSE
    /\ currentStageStart = 0
    /\ pc = "loop"
    /\ pass = 1
    /\ log = <<>>
    /\ ScannerIdle
    /\ OthersIdle

Change(idx, old, new, type) == [line |-> idx, old |-> old, new |-> new, type |-> type]
Entry(ev, idx, at, old, new, flag) ==
    [ev |-> ev, line |-> idx, at |-> at, old |-> old, new |-> new, flag |-> flag]

InLoop == pc = "loop" /\ i < Len(lines)
Current == lines[i + 1]
IsFromLine(line) == TrimmedUpperStartsWith(line, "FROM")
IsRunLine(line) == ~IsFromLine(line) /\ TrimmedUpperStartsWith(line, "RUN")
IsUserLine(line) == ~IsFromLine(line) /\ ~IsRunLine(line) /\ MentionsUserManagement(line)

\* needsUserRoot = false at a FROM
NeedsUserRootAtFrom(previous) == FALSE

\* the once-per-stage flag ignored
InjectUserRootAlways(needsRoot, alreadyInjected) == needsRoot

\* result.needsRoot && !needsUserRoot
InjectUserRoot(needsRoot, alreadyInjected) == needsRoot /\ ~alreadyInjected

\* if (line !== convertedFrom) changes.push(...)
RecordIfChanged(chs, idx, old, new, type) ==
    IF old # new THEN Append(chs, Change(idx, old, new, type)) ELSE chs

\* if (fullCommand.trim() !== result.converted.trim()) changes.push(...)
RecordRunIfChanged(chs, idx, old, new) ==
    IF old.toks # new.toks THEN Append(chs, Change(idx, old, new, "run")) ELSE chs

StepFrom ==
    /\ InLoop
    /\ IsFromLine(Current)
    /\ LET hasRun == CheckStageHasRun(lines, i)
           r == ConvertFrom(Current, hasRun)
       IN  /\ ~r.raised
           /\ stageHasRun' = hasRun
           /\ currentStageStart' = i
           /\ needsUserRoot' = NeedsUserRootAtFrom(needsUserRoot)
           /\ converted' = Append(converted, r.line)
           /\ changes' = RecordIfChanged(changes, i, Current, r.line, "from")
           /\ log' = Append(log, Entry("from", i, Len(converted) + 1, Current, r.line, hasRun))
           /\ i' = i + 1
    /\ UNCHANGED <<lines, pc, pass, svars, bvars, xvars, wvars, kvars, mvars, lvars>>

\* convertFrom throws: convert is left through the exception
StepFromThrows ==
    /\ InLoop
    /\ IsFromLine(Current)
    /\ LET hasRun == CheckStageHasRun(lines, i)
           r == ConvertFrom(Current, hasRun)
       IN  /\ r.raised
           /\ stageHasRun' = hasRun
           /\ currentStageStart' = i
           /\ needsUserRoot' = NeedsUserRootAtFrom(needsUserRoot)
           /\ pc' = "raised"
    /\ UNCHANGED <<lines, i, converted, changes, pass, log, svars, bvars, xvars, wvars, kvars, mvars, lvars>>

StepRun ==
    /\ InLoop
    /\ IsRunLine(Current)
    /\ LET rd == ReadMultilineCommand(lines, i)
           result == ConvertRun(rd.fullCommand)
           inject == InjectUserRoot(result.needsRoot, needsUserRoot)
           out == FormatMultilineCommand(result.converted, rd.lineCount)
           before == IF inject THEN Append(converted, UserRootLine) ELSE converted
           chs == IF inject THEN Append(changes, Change(i, EmptyLine, UserRootLine, "user"))
                  ELSE changes
           lg == IF inject
                 THEN Append(log, Entry("inject", i, Len(converted) + 1, EmptyLine,
                                        UserRootLine, TRUE))
                 ELSE log
       IN  /\ converted' = before \o out
           /\ changes' = RecordRunIfChanged(chs, i, rd.fullCommand, result.converted)
           /\ needsUserRoot' = (needsUserRoot \/ inject)
           /\ log' = Append(lg, Entry("run", i, Len(before) + 1, rd.fullCommand,
                                      result.converted, result.needsRoot))
           /\ i' = i + rd.lineCount
    /\ UNCHANGED <<lines, stageHasRun, currentStageStart, pc, pass, svars, bvars, xvars, wvars, kvars, mvars, lvars>>

StepUser ==
    /\ InLoop
    /\ IsUserLine(Current)
    /\ LET convertedUser == ConvertUserManagement(Current)
       IN  /\ converted' = Append(converted, convertedUser)
           /\ changes' = RecordIfChanged(changes, i, Current, convertedUser, "user")
           /\ log' = Append(log, Entry("user", i, Len(converted) + 1, Current,
                                       convertedUser, FALSE))
    /\ i' = i + 1
    /\ UNCHANGED <<lines, needsUserRoot, stageHasRun, currentStageStart, pc, pass, svars, bvars, xvars, wvars, kvars, mvars, lvars>>

StepPass ==
    /\ InLoop
    /\ ~IsFromLine(Current) /\ ~IsRunLine(Current) /\ ~IsUserLine(Current)
    /\ converted' = Append(converted, Current)
    /\ log' = Append(log, Entry("pass", i, Len(converted) + 1, Current, Current, FALSE))
    /\ i' = i + 1
    /\ UNCHANGED <<lines, changes, needsUserRoot, stageHasRun, currentStageStart, pc,
                   pass, svars, bvars, xvars, wvars, kvars, mvars, lvars>>

\* return { original, converted: converted.join('\n'), changes }
Return ==
    /\ pc = "loop"
    /\ i >= Len(lines)
    /\ pc' = "done"
    /\ UNCHANGED <<lines, i, converted, changes, needsUserRoot, stageHasRun,
                   currentStageStart, pass, log, svars, bvars, xvars, wvars, kvars, mvars, lvars>>

\* convert(convert(M).converted): the output text is split into lines again
ConvertAgain ==
    /\ pc = "done"
    /\ pass = 1
    /\ lines' = converted
    /\ i' = 0
    /\ converted' = <<>>
    /\ changes' = <<>>
    /\ needsUserRoot' = FALSE
    /\ stageHasRun' = FALSE
    /\ currentStageStart' = 0
    /\ pc' = "loop"
    /\ pass' = 2
    /\ log' = <<>>
    /\ UNCHANGED <<svars, bvars, xvars, wvars, kvars, mvars, lvars>>

Next ==
    \/ StepFrom
    \/ StepFromThrows
    \/ StepRun
    \/ StepUser
    \/ StepPass
    \/ Return
    \/ ConvertAgain

Spec == Init /\ [][Next]_vars

(***************************************************************************)
(* scanImage: one action per stretch of code between two awaits            *)
(***************************************************************************)
ConverterIdle ==
    /\ lines = <<EmptyLine>>
    /\ i = 1
    /\ converted = <<EmptyLine>>
    /\ changes = <<>>
    /\ needsUserRoot = FALSE
    /\ stageHasRun = FALSE
    /\ currentStageStart = 0
    /\ pc = "done"
    /\ pass = 2
    /\ log = <<>>

InitScan == ConverterIdle /\ ScannerIdle /\ OthersIdle

\* a result still served when exactly the TTL has elapsed
IsFreshInclusive(cached, t) ==
    /\ cached.present
    /\ cached.scannedAt # -1
    /\ t - cached.scannedAt <= SCAN_CACHE_TTL

\* cached && cached.scannedAt && Date.now() - cached.scannedAt.getTime() < SCAN_CACHE_TTL
IsFresh(cached, t) ==
    /\ cached.present
    /\ cached.scannedAt # -1
    /\ t - cached.scannedAt < SCAN_CACHE_TTL

\* the pending-state check left out
IsInProgressSkipped(cached) == FALSE

\* cached?.scanning
IsInProgress(cached) == cached.present /\ cached.scanning

\* calls are issued in the order of their ids
MayArrive(c) == calls[c].pc = "idle" /\ \A d \in CallIds : d < c => calls[d].pc # "idle"

OthersPending(c, img) ==
    \E d \in CallIds \ {c} : calls[d].image = img /\ calls[d].pc \in {"probing", "scanning"}

\* the image's entry is the error result of a failed scan, stored less than the TTL ago
HoldsUnexpiredFailure(img) ==
    /\ scanCache[img].present
    /\ ~scanCache[img].scanning
    /\ scanCache[img].error \notin {"", "grype not installed"}
    /\ now - storedAt[img] < SCAN_CACHE_TTL

Arrive(c, img) ==
    [calls[c] EXCEPT !.image = img,
                     !.pendingOnArrival = OthersPending(c, img),
                     !.failedOnArrival = HoldsUnexpiredFailure(img)]

\* lines 44-51: a fresh cached result is returned
ScanImageCached(c, img) ==
    /\ MayArrive(c)
    /\ IsFresh(scanCache[img], now)
    /\ calls' = [calls EXCEPT ![c] = [Arrive(c, img) EXCEPT !.pc = "returned",
                                                            !.result = scanCache[img]]]
    /\ UNCHANGED <<scanCache, now, invocations, probes, storedAt, cvars, bvars, xvars, wvars, kvars, mvars, lvars>>

\* lines 53-56: the in-progress marker is returned
ScanImagePending(c, img) ==
    /\ MayArrive(c)
    /\ ~IsFresh(scanCache[img], now)
    /\ IsInProgress(scanCache[img])
    /\ calls' = [calls EXCEPT ![c] = [Arrive(c, img) EXCEPT !.pc = "returned",
                                                            !.result = scanCache[img]]]
    /\ UNCHANGED <<scanCache, now, invocations, probes, storedAt, cvars, bvars, xvars, wvars, kvars, mvars, lvars>>

\* lines 58-75: the marker is stored and `grype version` is started
ScanImageStart(c, img) ==
    /\ MayArrive(c)
    /\ ~IsFresh(scanCache[img], now)
    /\ ~IsInProgress(scanCache[img])
    /\ scanCache' = [scanCache EXCEPT ![img] = InProgress]
    /\ storedAt' = [storedAt EXCEPT ![img] = now]
    /\ probes' = probes + 1
    /\ calls' = [calls EXCEPT ![c] = [Arrive(c, img) EXCEPT !.pc = "probing",
                                                            !.probed = TRUE]]
    /\ UNCHANGED <<now, invocations, cvars, bvars, xvars, wvars, kvars, mvars, lvars>>

\* lines 76-90: `grype version` failed
ProbeMissing(c) ==
    /\ calls[c].pc = "probing"
    /\ scanCache' = [scanCache EXCEPT ![calls[c].image] = NotInstalled]
    /\ storedAt' = [storedAt EXCEPT ![calls[c].image] = now]
    /\ calls' = [calls EXCEPT ![c].pc = "returned", ![c].result = NotInstalled]
    /\ UNCHANGED <<now, invocations, probes, cvars, bvars, xvars, wvars, kvars, mvars, lvars>>

\* lines 92-97: `grype <image> -o json --quiet` is started
ProbeFound(c) ==
    /\ calls[c].pc = "probing"
    /\ invocations' = [invocations EXCEPT ![calls[c].image] = @ + 1]
    /\ calls' = [calls EXCEPT ![c].pc = "scanning", ![c].invoked = TRUE]
    /\ UNCHANGED <<scanCache, now, probes, storedAt, cvars, bvars, xvars, wvars, kvars, mvars, lvars>>

\* the severities of scanData.matches, as reported by the tool
ScanOutputs ==
    { <<>>, <<"Critical", "High">>, <<"Medium", "Low", "Negligible">>, <<"High", "Unknown">> }

\* counts[severity]++ for the severities that are keys of counts
Count(matches, severity) == Cardinality({k \in 1..Len(matches) : matches[k] = severity})
SeverityCounts(matches) ==
    <<Count(matches, "Critical"), Count(matches, "High"), Count(matches, "Medium"),
      Count(matches, "Low"), Count(matches, "Negligible")>>

\* lines 99-129
ScanSucceeds(c, matches) ==
    /\ calls[c].pc = "scanning"
    /\ LET result == Result(Len(matches), SeverityCounts(matches), FALSE, "", now)
       IN  /\ scanCache' = [scanCache EXCEPT ![calls[c].image] = result]
           /\ calls' = [calls EXCEPT ![c].pc = "returned", ![c].result = result]
    /\ storedAt' = [storedAt EXCEPT ![calls[c].image] = now]
    /\ UNCHANGED <<now, invocations, probes, cvars, bvars, xvars, wvars, kvars, mvars, lvars>>

\* error.message of a failed run, and lines 134-141
ErrorMessages == {"Command failed: unauthorized", "Command failed: timeout"}
AuthMessages == {"Command failed: unauthorized"}
ErrorMessage(message) ==
    IF message \in AuthMessages THEN "Authentication required. Run: chainctl auth login"
    ELSE message

\* lines 130-157
ScanFails(c, message) ==
    /\ calls[c].pc = "scanning"
    /\ LET result == Failed(ErrorMessage(message))
       IN  /\ scanCache' = [scanCache EXCEPT ![calls[c].image] = result]
           /\ calls' = [calls EXCEPT ![c].pc = "returned", ![c].result = result]
    /\ storedAt' = [storedAt EXCEPT ![calls[c].image] = now]
    /\ UNCHANGED <<now, invocations, probes, cvars, bvars, xvars, wvars, kvars, mvars, lvars>>

Tick ==
    /\ now + TickHours <= MaxTime
    /\ now' = now + TickHours
    /\ UNCHANGED <<scanCache, calls, invocations, probes, storedAt, cvars, bvars, xvars, wvars, kvars, mvars, lvars>>

NextScan ==
    \/ \E c \in CallIds, img \in Images : ScanImageCached(c, img)
    \/ \E c \in CallIds, img \in Images : ScanImagePending(c, img)
    \/ \E c \in CallIds, img \in Images : ScanImageStart(c, img)
    \/ \E c \in CallIds : ProbeMissing(c)
    \/ \E c \in CallIds : ProbeFound(c)
    \/ \E c \in CallIds, matches \in ScanOutputs : ScanSucceeds(c, matches)
    \/ \E c \in CallIds, message \in ErrorMessages : ScanFails(c, message)
    \/ Tick

SpecScan == InitScan /\ [][NextScan]_vars

\* The scan invocation runs under a 60 s timeout (line 95), so a call that
\* awaits it continues; `grype version` (line 32) runs under no timeout, so
\* nothing makes a call that awaits the probe continue.
ScanCompletes(c) ==
    \/ \E matches \in ScanOutputs : ScanSucceeds(c, matches)
    \/ \E message \in ErrorMessages : ScanFails(c, message)

FairScan == SpecScan /\ \A c \in CallIds : WF_vars(ScanCompletes(c))

\* getCachedScan (lines 183-185), as the hover reads it: scanCache.get(image) || null;
\* readAt is history, the time of the read
GetCachedScan(c, img) ==
    /\ MayArrive(c)
    /\ calls' = [calls EXCEPT ![c].pc = "read", ![c].image = img,
                              ![c].result = scanCache[img], ![c].readAt = now]
    /\ UNCHANGED <<scanCache, now, invocations, probes, storedAt, cvars, bvars, xvars,
                   wvars, kvars, mvars, lvars>>

\* clearScanCache (lines 190-192): scanCache.clear()
ClearScanCache ==
    /\ \E img \in Images : scanCache[img].present
    /\ scanCache' = [img \in Images |-> Absent]
    /\ UNCHANGED <<now, calls, invocations, probes, storedAt, cvars, bvars, xvars,
                   wvars, kvars, mvars, lvars>>

\* the scanner with every exported function of the module
NextScanApi ==
    \/ NextScan
    \/ \E c \in CallIds, img \in Images : GetCachedScan(c, img)
    \/ ClearScanCache

SpecScanApi == InitScan /\ [][NextScanApi]_vars

(***************************************************************************)
(* scanImages: the chunks of a batch, each a Promise.all over scanImage    *)
(***************************************************************************)
\* for (let i = 0; i < images.length; i += 3)
ChunkSize == 3

BatchImages == {"img1", "img2", "img3", "img4", "img5", "img6"}
BatchOrders == { <<"img1", "img2", "img3", "img4", "img5", "img6">>,
                 <<"img1", "img1", "img2", "img3", "img4", "img2">> }
BatchInputs == {SubSeq(o, 1, n) : o \in BatchOrders, n \in 0..MaxBatch}

\* the call of scanImage for images[c] has the id c
BatchCallIds == 1..MaxBatch

InitBatch ==
    /\ ConverterIdle /\ VexIdle /\ WolfiIdle /\ ChainctlIdle /\ CrystalBallIdle /\ SlackIdle
    /\ scanCache = [img \in BatchImages |-> Absent]
    /\ now = 0
    /\ calls = [c \in BatchCallIds |-> IdleCall]
    /\ invocations = [img \in BatchImages |-> 0]
    /\ probes = 0
    /\ storedAt = [img \in BatchImages |-> -1]
    /\ batch \in {[images |-> b, i |-> 0, pc |-> "loop", results |-> {}] : b \in BatchInputs}

\* every image that remains, in one group
ChunkAll(images, k) == SubSeq(images, k + 1, Len(images))

\* images.slice(i, i + 3)
Chunk(images, k) ==
    SubSeq(images, k + 1, IF k + ChunkSize < Len(images) THEN k + ChunkSize ELSE Len(images))

\* scanImage(img) up to its first await, on the state the calls before it in
\* the chunk have left: lines 44-75
BeginScan(acc, c, img) ==
    LET cached == acc.cache[img]
        call == [IdleCall EXCEPT !.image = img, !.pendingOnArrival = IsInProgress(cached)]
    IN  IF IsFresh(cached, now) \/ IsInProgress(cached)
        THEN [acc EXCEPT !.calls[c] = [call EXCEPT !.pc = "returned", !.result = cached]]
        ELSE [acc EXCEPT !.cache[img] = InProgress,
                         !.storedAt[img] = now,
                         !.probes = @ + 1,
                         !.calls[c] = [call EXCEPT !.pc = "probing", !.probed = TRUE]]

\* chunk.map(img => scanImage(img)): the calls start one after the other
RECURSIVE BeginChunk(_, _, _)
BeginChunk(acc, c, last) ==
    IF c > last THEN acc
    ELSE BeginChunk(BeginScan(acc, c, batch.images[c]), c + 1, last)

ChunkLast == batch.i + Len(Chunk(batch.images, batch.i))
ChunkCalls == (batch.i + 1)..ChunkLast

\* line 173 up to the await
ScanImagesChunk ==
    /\ batch.pc = "loop"
    /\ batch.i < Len(batch.images)
    /\ LET acc == BeginChunk([cache |-> scanCache, calls |-> calls, storedAt |-> storedAt,
                              probes |-> probes], batch.i + 1, ChunkLast)
       IN  /\ scanCache' = acc.cache
           /\ calls' = acc.calls
           /\ storedAt' = acc.storedAt
           /\ probes' = acc.probes
    /\ batch' = [batch EXCEPT !.pc = "awaiting"]
    /\ UNCHANGED <<now, invocations, cvars, xvars, wvars, kvars, mvars, lvars>>

\* scans.forEach(result => results.set(result.image, result)): a later result
\* for an image replaces an earlier one
SetResults(results, cs) ==
    {r \in results : \A c \in cs : calls[c].image # r[1]}
        \cup {<<calls[c].image, calls[c].result>> : c \in
                {d \in cs : \A e \in cs : calls[e].image = calls[d].image => e <= d}}

\* lines 173-175 after the await: every call of the chunk has returned
ChunkDone ==
    /\ batch.pc = "awaiting"
    /\ \A c \in ChunkCalls : calls[c].pc = "returned"
    /\ batch' = [batch EXCEPT !.pc = "loop",
                              !.i = @ + ChunkSize,
                              !.results = SetResults(@, ChunkCalls)]
    /\ UNCHANGED <<svars, cvars, xvars, wvars, kvars, mvars, lvars>>

\* line 177
ReturnBatch ==
    /\ batch.pc = "loop"
    /\ batch.i >= Len(batch.images)
    /\ batch' = [batch EXCEPT !.pc = "done"]
    /\ UNCHANGED <<svars, cvars, xvars, wvars, kvars, mvars, lvars>>

NextBatch ==
    \/ ScanImagesChunk
    \/ \E c \in BatchCallIds : ProbeMissing(c)
    \/ \E c \in BatchCallIds : ProbeFound(c)
    \/ \E c \in BatchCallIds, matches \in ScanOutputs : ScanSucceeds(c, matches)
    \/ \E c \in BatchCallIds, message \in ErrorMessages : ScanFails(c, message)
    \/ ChunkDone
    \/ ReturnBatch

SpecBatch == InitBatch /\ [][NextBatch]_vars

(***************************************************************************)
(* fetchVexFeed: one action per stretch of code between two awaits         *)
(***************************************************************************)
\* 1000 * 60 * 60 ms; the clock counts hours
VEX_CACHE_TTL == 1

\* A package reference (PURL) is the sequence of its lexical atoms:
\* pkg:pypi/requests@2.28.1 is <<"pkg", ":", "pypi", "/", "requests", "@", "2.28.1">>.
Purl(eco, name, version) == <<"pkg", ":", eco, "/", name, "@", version>>
PurlNoVersion(eco, name) == <<"pkg", ":", eco, "/", name>>

\* /pkg:[^/]+\/([^@]+)/ and /pkg:([^/]+)\//: the reference has the shape pkg:<eco>/<name>...
IsPurl(ref) ==
    Len(ref) >= 5 /\ ref[1] = "pkg" /\ ref[2] = ":" /\ ref[3] \notin {"/", "@"}
        /\ ref[4] = "/" /\ ref[5] # "@"

\* position of the first "@" from position k on, 0 when there is none
FirstAt(ref, k) ==
    IF \E j \in k..Len(ref) : ref[j] = "@"
    THEN CHOOSE j \in k..Len(ref) : ref[j] = "@" /\ \A h \in k..(j - 1) : ref[h] # "@"
    ELSE 0

\* match ? match[1] : purl
ExtractPackageName(ref) ==
    IF IsPurl(ref)
    THEN SubSeq(ref, 5, IF FirstAt(ref, 5) = 0 THEN Len(ref) ELSE FirstAt(ref, 5) - 1)
    ELSE ref

\* match ? match[1] : 'unknown'
ExtractEcosystem(ref) == IF IsPurl(ref) THEN ref[3] ELSE "unknown"

\* /@(.+)$/: match ? match[1] : ''
ExtractVersion(ref) ==
    IF FirstAt(ref, 1) # 0 /\ FirstAt(ref, 1) < Len(ref)
    THEN SubSeq(ref, FirstAt(ref, 1) + 1, Len(ref))
    ELSE <<>>

\* a statement of a document: identifier <<>> when stmt.products?.[0]?.identifiers?.[0]
\* is missing, vulnerability "" when stmt.vulnerability_id is missing
Statement(identifier, vulnerability) ==
    [identifier |-> identifier, vulnerability_id |-> vulnerability]
\* a document of the feed; a feed is [hasDocuments, documents]
Document(statements) == [hasStatements |-> TRUE, statements |-> statements]
Feed(documents) == [hasDocuments |-> TRUE, documents |-> documents]

\* lines 71-77
Remediation(stmt) ==
    [packageName |-> ExtractPackageName(stmt.identifier),
     ecosystem |-> ExtractEcosystem(stmt.identifier),
     version |-> ExtractVersion(stmt.identifier),
     cvesFixed |-> IF stmt.vulnerability_id # "" THEN <<stmt.vulnerability_id>> ELSE <<>>]

\* `${remediation.ecosystem}:${remediation.packageName}`
KeyOf(r) == <<r.ecosystem, r.packageName>>

\* the remediations of the statements that carry a package reference, in order
RECURSIVE StatementRemediations(_)
StatementRemediations(statements) ==
    IF statements = <<>> THEN <<>>
    ELSE (IF Head(statements).identifier = <<>> THEN <<>>
          ELSE <<Remediation(Head(statements))>>)
         \o StatementRemediations(Tail(statements))

RECURSIVE DocumentRemediations(_)
DocumentRemediations(documents) ==
    IF documents = <<>> THEN <<>>
    ELSE (IF Head(documents).hasStatements
          THEN StatementRemediations(Head(documents).statements) ELSE <<>>)
         \o DocumentRemediations(Tail(documents))

\* the records of rs whose key is key, in order
RECURSIVE WithKey(_, _)
WithKey(rs, key) ==
    IF rs = <<>> THEN <<>>
    ELSE (IF KeyOf(Head(rs)) = key THEN <<Head(rs)>> ELSE <<>>) \o WithKey(Tail(rs), key)

\* parseVexData: the entries <<key, records>> of the map it builds
ParseVexData(vexJson) ==
    IF ~vexJson.hasDocuments THEN {}
    ELSE LET rs == DocumentRemediations(vexJson.documents)
         IN  {<<KeyOf(rs[k]), WithKey(rs, KeyOf(rs[k]))>> : k \in 1..Len(rs)}

REQUESTS == Purl("pypi", "requests", "2.28.1")
TwoFixesFeed ==
    Feed(<<Document(<<Statement(REQUESTS, "CVE-2023-32681"),
                      Statement(REQUESTS, "CVE-2024-35195")>>)>>)
VexDocuments ==
    { [hasDocuments |-> FALSE, documents |-> <<>>],
      TwoFixesFeed,
      Feed(<<Document(<<Statement(PurlNoVersion("npm", "lodash"), "CVE-2021-23337"),
                        Statement(<<>>, "CVE-2020-8203")>>),
             [hasStatements |-> FALSE, statements |-> <<>>],
             Document(<<Statement(REQUESTS, ""), Statement(<<"flask">>, "CVE-2023-30861")>>)>>) }

\* the maps a successful fetch can yield
VexFeeds == {ParseVexData(d) : d \in VexDocuments}

InitVex == ConverterIdle /\ ScannerIdle /\ OthersIdle

\* cachedVexData && cacheTimestamp && Date.now() - cacheTimestamp < CACHE_TTL
VexIsFresh(t) ==
    /\ cachedVexData.populated
    /\ vexCacheTimestamp # -1
    /\ t - vexCacheTimestamp < VEX_CACHE_TTL

\* calls are issued in the order of their ids
VexMayArrive(c) ==
    vexCalls[c].pc = "idle" /\ \A d \in FeedCallIds : d < c => vexCalls[d].pc # "idle"

\* lines 20-23
FetchVexFeedCached(c) ==
    /\ VexMayArrive(c)
    /\ VexIsFresh(now)
    /\ vexCalls' = [vexCalls EXCEPT ![c].pc = "returned", ![c].outcome = "cached",
                                    ![c].result = cachedVexData]
    /\ UNCHANGED <<cachedVexData, vexCacheTimestamp, cvars, svars, bvars, wvars, kvars, mvars, lvars>>

\* lines 25-30: the request is sent
FetchVexFeedStart(c) ==
    /\ VexMayArrive(c)
    /\ ~VexIsFresh(now)
    /\ vexCalls' = [vexCalls EXCEPT ![c].pc = "fetching",
                                    \* history: no fetch had filled the cache yet
                                    ![c].firstUse = ~cachedVexData.populated]
    /\ UNCHANGED <<cachedVexData, vexCacheTimestamp, cvars, svars, bvars, wvars, kvars, mvars, lvars>>

\* the fetched entries added to the ones the cache holds
CacheMergedAfterFetch(cache, fetched) ==
    IF cache.populated THEN MapOf(cache.data \cup fetched.data) ELSE fetched

\* cachedVexData = remediations
CacheAfterFetch(cache, fetched) == fetched

\* lines 32-43
FetchVexFeedSucceeds(c, feed) ==
    /\ vexCalls[c].pc = "fetching"
    /\ cachedVexData' = CacheAfterFetch(cachedVexData, MapOf(feed))
    /\ vexCacheTimestamp' = now
    /\ vexCalls' = [vexCalls EXCEPT ![c].pc = "returned", ![c].outcome = "fetched",
                                    ![c].result = MapOf(feed)]
    /\ UNCHANGED <<cvars, svars, bvars, wvars, kvars, mvars, lvars>>

\* the cache dropped when a fetch fails
CacheClearedAfterFailure(cache) == NullMap

\* the catch block assigns neither cachedVexData nor cacheTimestamp
CacheAfterFailure(cache) == cache

\* lines 44-47: the request failed, the status was not ok, or the body did not
\* parse; the error is logged and `new Map()` returned
FetchVexFeedFails(c) ==
    /\ vexCalls[c].pc = "fetching"
    /\ cachedVexData' = CacheAfterFailure(cachedVexData)
    /\ vexCalls' = [vexCalls EXCEPT ![c].pc = "returned", ![c].outcome = "failed",
                                    ![c].result = EmptyMap,
                                    \* history: the cache as the failed fetch left it
                                    ![c].cacheLeft = CacheAfterFailure(cachedVexData)]
    /\ UNCHANGED <<vexCacheTimestamp, cvars, svars, bvars, wvars, kvars, mvars, lvars>>

FeedTick ==
    /\ now + 1 <= MaxFeedTime
    /\ now' = now + 1
    /\ UNCHANGED <<scanCache, calls, invocations, probes, storedAt, cvars, bvars,
                   xvars, wvars, kvars, mvars, lvars>>

\* const ecosystemMap = { python: 'pypi', javascript: 'npm', java: 'maven' }
EcosystemMap == << <<"python", "pypi">>, <<"javascript", "npm">>, <<"java", "maven">> >>

\* the label used as it was given
NoNormalization(ecosystem) == ecosystem

\* ecosystemMap[ecosystem] || ecosystem; a property inherited from
\* Object.prototype is a function, whose text becomes part of the key
NormalizeEcosystem(ecosystem) ==
    IF \E k \in 1..Len(EcosystemMap) : EcosystemMap[k][1] = ecosystem
    THEN EcosystemMap[CHOOSE k \in 1..Len(EcosystemMap) : EcosystemMap[k][1] = ecosystem][2]
    ELSE IF IsPrototypeKey(W(ecosystem)) THEN "function " \o ecosystem
         ELSE ecosystem

\* feed.get(key) || []
FeedGet(feed, key) ==
    IF \E e \in feed.data : e[1] = key
    THEN (CHOOSE e \in feed.data : e[1] = key)[2]
    ELSE <<>>

Queries == { <<<<"requests">>, "python">>, <<<<"requests">>, "pypi">>,
             <<<<"lodash">>, "javascript">>, <<<<"flask">>, "constructor">> }

\* checkRemediationAvailability, lines 126-136, on the feed the await handed over
CheckRemediationAvailability(c, packageName, ecosystem) ==
    /\ vexCalls[c].pc = "returned"
    /\ vexCalls' = [vexCalls EXCEPT
           ![c].pc = "answered",
           ![c].packageName = packageName,
           ![c].ecosystem = ecosystem,
           ![c].remediations =
               FeedGet(vexCalls[c].result, <<NormalizeEcosystem(ecosystem), packageName>>)]
    /\ UNCHANGED <<cachedVexData, vexCacheTimestamp, cvars, svars, bvars, wvars, kvars, mvars, lvars>>

NextVex ==
    \/ \E c \in FeedCallIds, q \in Queries : CheckRemediationAvailability(c, q[1], q[2])
    \/ \E c \in FeedCallIds : FetchVexFeedCached(c)
    \/ \E c \in FeedCallIds : FetchVexFeedStart(c)
    \/ \E c \in FeedCallIds, feed \in VexFeeds : FetchVexFeedSucceeds(c, feed)
    \/ \E c \in FeedCallIds : FetchVexFeedFails(c)
    \/ FeedTick

SpecVex == InitVex /\ [][NextVex]_vars

(***************************************************************************)
(* package-search: packageExists and verifyPackageMapping over             *)
(* fetchWolfiPackages                                                      *)
(***************************************************************************)
WOLFI_CACHE_TTL == 1

\* the package names of a fetched APKINDEX
WolfiIndexes == { {"curl"}, {"curl", "py3-pip"} }
PackageNames == {"curl", "py3-pip"}
WolfiOps == {"packageExists", "verifyPackageMapping"}

InitWolfi == ConverterIdle /\ ScannerIdle /\ OthersIdle

\* cachedPackages && cacheTimestamp && Date.now() - cacheTimestamp < CACHE_TTL
WolfiIsFresh(t) ==
    /\ cachedPackages.populated
    /\ wolfiCacheTimestamp # -1
    /\ t - wolfiCacheTimestamp < WOLFI_CACHE_TTL

\* what `await fetchWolfiPackages()` hands to its caller: fetchWolfiPackages
\* catches every failure of the fetch and returns `new Map()`
Fetched(packages) == [raised |-> FALSE, packages |-> packages]
FetchFailed == Fetched({})

\* packageExists: packages.has(packageName); true when the await throws
PackageExists(fetched, packageName) ==
    IF fetched.raised THEN TRUE ELSE packageName \in fetched.packages

\* verifyPackageMapping: packages.has(targetPackage)
VerifyPackageMapping(fetched, targetPackage) == targetPackage \in fetched.packages

WolfiAnswer(op, fetched, name) ==
    IF op = "packageExists" THEN PackageExists(fetched, name)
    ELSE VerifyPackageMapping(fetched, name)

WolfiMayArrive(c) ==
    wolfiCalls[c].pc = "idle" /\ \A d \in FeedCallIds : d < c => wolfiCalls[d].pc # "idle"

\* lines 500-503, then the caller's lookup
WolfiCached(c, op, name) ==
    /\ WolfiMayArrive(c)
    /\ WolfiIsFresh(now)
    /\ wolfiCalls' = [wolfiCalls EXCEPT ![c] =
           [pc |-> "returned", op |-> op, name |-> name, outcome |-> "cached",
            raised |-> FALSE, exists |-> WolfiAnswer(op, Fetched(cachedPackages.data), name)]]
    /\ UNCHANGED <<cachedPackages, wolfiCacheTimestamp, cvars, svars, bvars, xvars, kvars, mvars, lvars>>

\* lines 505-509: the request is sent
WolfiFetchStart(c, op, name) ==
    /\ WolfiMayArrive(c)
    /\ ~WolfiIsFresh(now)
    /\ wolfiCalls' = [wolfiCalls EXCEPT ![c].pc = "fetching", ![c].op = op, ![c].name = name]
    /\ UNCHANGED <<cachedPackages, wolfiCacheTimestamp, cvars, svars, bvars, xvars, kvars, mvars, lvars>>

\* lines 511-533, then the caller's lookup
WolfiFetchSucceeds(c, index) ==
    /\ wolfiCalls[c].pc = "fetching"
    /\ cachedPackages' = MapOf(index)
    /\ wolfiCacheTimestamp' = now
    /\ wolfiCalls' = [wolfiCalls EXCEPT ![c].pc = "returned", ![c].outcome = "fetched",
           ![c].exists = WolfiAnswer(wolfiCalls[c].op, Fetched(index), wolfiCalls[c].name)]
    /\ UNCHANGED <<cvars, svars, bvars, xvars, kvars, mvars, lvars>>

\* lines 534-538, then the caller's lookup in the empty map
WolfiFetchFails(c) ==
    /\ wolfiCalls[c].pc = "fetching"
    /\ wolfiCalls' = [wolfiCalls EXCEPT ![c].pc = "returned", ![c].outcome = "failed",
           ![c].raised = FetchFailed.raised,
           ![c].exists = WolfiAnswer(wolfiCalls[c].op, FetchFailed, wolfiCalls[c].name)]
    /\ UNCHANGED <<cachedPackages, wolfiCacheTimestamp, cvars, svars, bvars, xvars, kvars, mvars, lvars>>

NextWolfi ==
    \/ \E c \in FeedCallIds, op \in WolfiOps, name \in PackageNames : WolfiCached(c, op, name)
    \/ \E c \in FeedCallIds, op \in WolfiOps, name \in PackageNames : WolfiFetchStart(c, op, name)
    \/ \E c \in FeedCallIds, index \in WolfiIndexes : WolfiFetchSucceeds(c, index)
    \/ \E c \in FeedCallIds : WolfiFetchFails(c)
    \/ FeedTick

SpecWolfi == InitWolfi /\ [][NextWolfi]_vars

(***************************************************************************)
(* ChainctlClient: isAuthenticated and getEntitlements, one action per     *)
(* stretch of code between two awaits                                      *)
(***************************************************************************)
\* 5 * 60 * 1000 ms; the clock counts minutes
CHAINCTL_CACHE_TTL == 5

\* the ecosystems `chainctl libraries entitlements list` reports
EntitlementSets == { {}, {"PYTHON"} }

InitChainctl == ConverterIdle /\ ScannerIdle /\ OthersIdle

\* Date.now() - this.cacheTimestamp < this.CACHE_TTL
ChainctlIsFresh(t) ==
    chainctlCacheTimestamp # -1 /\ t - chainctlCacheTimestamp < CHAINCTL_CACHE_TTL

ChainctlMayArrive(c) ==
    /\ chainctlCalls[c].pc = "idle"
    /\ \A d \in ChainctlCallIds : d < c => chainctlCalls[d].pc # "idle"

\* part_007 lines 39-42
IsAuthenticatedCached(c) ==
    /\ ChainctlMayArrive(c)
    /\ authenticatedCache # "null" /\ ChainctlIsFresh(now)
    /\ chainctlCalls' = [chainctlCalls EXCEPT ![c] =
           [pc |-> "returned", kind |-> "auth", fromCache |-> TRUE,
            age |-> now - authObtainedAt, result |-> authenticatedCache]]
    /\ UNCHANGED <<authenticatedCache, entitlementsCache, chainctlCacheTimestamp,
                   authObtainedAt, entitlementsObtainedAt, cvars, svars, bvars, xvars, wvars, mvars, lvars>>

\* line 45: `chainctl auth status` is started
IsAuthenticatedQuery(c) ==
    /\ ChainctlMayArrive(c)
    /\ ~(authenticatedCache # "null" /\ ChainctlIsFresh(now))
    /\ chainctlCalls' = [chainctlCalls EXCEPT ![c].pc = "running", ![c].kind = "auth"]
    /\ UNCHANGED <<authenticatedCache, entitlementsCache, chainctlCacheTimestamp,
                   authObtainedAt, entitlementsObtainedAt, cvars, svars, bvars, xvars, wvars, mvars, lvars>>

\* lines 46-51
AuthStatusSucceeds(c, isValid) ==
    /\ chainctlCalls[c].pc = "running" /\ chainctlCalls[c].kind = "auth"
    /\ authenticatedCache' = isValid
    /\ chainctlCacheTimestamp' = now
    /\ authObtainedAt' = now
    /\ chainctlCalls' = [chainctlCalls EXCEPT ![c].pc = "returned", ![c].result = isValid]
    /\ UNCHANGED <<entitlementsCache, entitlementsObtainedAt, cvars, svars, bvars, xvars, wvars, mvars, lvars>>

\* lines 52-55: the command failed or timed out; cacheTimestamp is not written
AuthStatusFails(c) ==
    /\ chainctlCalls[c].pc = "running" /\ chainctlCalls[c].kind = "auth"
    /\ authenticatedCache' = "false"
    /\ authObtainedAt' = now
    /\ chainctlCalls' = [chainctlCalls EXCEPT ![c].pc = "returned", ![c].result = "false"]
    /\ UNCHANGED <<entitlementsCache, chainctlCacheTimestamp, entitlementsObtainedAt,
                   cvars, svars, bvars, xvars, wvars, mvars, lvars>>

\* lines 63-66
GetEntitlementsCached(c) ==
    /\ ChainctlMayArrive(c)
    /\ entitlementsCache.populated /\ ChainctlIsFresh(now)
    /\ chainctlCalls' = [chainctlCalls EXCEPT ![c] =
           [pc |-> "returned", kind |-> "entitlements", fromCache |-> TRUE,
            age |-> now - entitlementsObtainedAt, result |-> entitlementsCache]]
    /\ UNCHANGED <<authenticatedCache, entitlementsCache, chainctlCacheTimestamp,
                   authObtainedAt, entitlementsObtainedAt, cvars, svars, bvars, xvars, wvars, mvars, lvars>>

\* lines 68-73: `chainctl libraries entitlements list` is started
GetEntitlementsQuery(c) ==
    /\ ChainctlMayArrive(c)
    /\ ~(entitlementsCache.populated /\ ChainctlIsFresh(now))
    /\ chainctlCalls' = [chainctlCalls EXCEPT ![c].pc = "running", ![c].kind = "entitlements"]
    /\ UNCHANGED <<authenticatedCache, entitlementsCache, chainctlCacheTimestamp,
                   authObtainedAt, entitlementsObtainedAt, cvars, svars, bvars, xvars, wvars, mvars, lvars>>

\* lines 74-98
EntitlementsSucceeds(c, ecosystems) ==
    /\ chainctlCalls[c].pc = "running" /\ chainctlCalls[c].kind = "entitlements"
    /\ entitlementsCache' = SetOf(ecosystems)
    /\ chainctlCacheTimestamp' = now
    /\ entitlementsObtainedAt' = now
    /\ chainctlCalls' = [chainctlCalls EXCEPT ![c].pc = "returned",
                                              ![c].result = SetOf(ecosystems)]
    /\ UNCHANGED <<authenticatedCache, authObtainedAt, cvars, svars, bvars, xvars, wvars, mvars, lvars>>

\* lines 99-102: `new Set()` is returned, nothing is written
EntitlementsFails(c) ==
    /\ chainctlCalls[c].pc = "running" /\ chainctlCalls[c].kind = "entitlements"
    /\ chainctlCalls' = [chainctlCalls EXCEPT ![c].pc = "returned", ![c].result = SetOf({})]
    /\ UNCHANGED <<authenticatedCache, entitlementsCache, chainctlCacheTimestamp,
                   authObtainedAt, entitlementsObtainedAt, cvars, svars, bvars, xvars, wvars, mvars, lvars>>

ChainctlTick ==
    /\ now + ChainctlTickMinutes <= MaxChainctlTime
    /\ now' = now + ChainctlTickMinutes
    /\ UNCHANGED <<scanCache, calls, invocations, probes, storedAt, cvars, bvars,
                   xvars, wvars, kvars, mvars, lvars>>

NextChainctl ==
    \/ \E c \in ChainctlCallIds : IsAuthenticatedCached(c)
    \/ \E c \in ChainctlCallIds : IsAuthenticatedQuery(c)
    \/ \E c \in ChainctlCallIds, isValid \in {"true", "false"} : AuthStatusSucceeds(c, isValid)
    \/ \E c \in ChainctlCallIds : AuthStatusFails(c)
    \/ \E c \in ChainctlCallIds : GetEntitlementsCached(c)
    \/ \E c \in ChainctlCallIds : GetEntitlementsQuery(c)
    \/ \E c \in ChainctlCallIds, e \in EntitlementSets : EntitlementsSucceeds(c, e)
    \/ \E c \in ChainctlCallIds : EntitlementsFails(c)
    \/ ChainctlTick

SpecChainctl == InitChainctl /\ [][NextChainctl]_vars

(***************************************************************************)
(* CrystalBallClient: start, stop, matchImage                              *)
(***************************************************************************)
InitCrystalBall == ConverterIdle /\ ScannerIdle /\ OthersIdle

\* the images a match is asked for: name and tag (<<>>: no tag)
ImageRef(name, tag) == [name |-> name, tag |-> tag]
ImageRefs ==
    { ImageRef("node", <<"18", "-", "alpine">>),
      ImageRef("python", <<"3", ".", "9", "-", "slim">>),
      ImageRef("ubuntu", <<>>),
      ImageRef("golang", <<"1", ".", "22">>),
      ImageRef("busybox", <<"1", ".", "36">>) }

\* tag?.includes(word)
TagIncludes(img, word) == \E k \in 1..Len(img.tag) : img.tag[k] = word

\* parseImageDistribution: the distribution, "null" when none is determined
ParseImageDistribution(img) ==
    IF TagIncludes(img, "alpine") THEN "alpine"
    ELSE IF \E w \in {"slim", "bullseye", "bookworm"} : TagIncludes(img, w) THEN "debian"
    ELSE IF img.name = "ubuntu" \/ TagIncludes(img, "ubuntu") THEN "ubuntu"
    ELSE IF img.name \in {"python", "node", "ruby", "php", "java", "golang", "rust"}
         THEN "debian"
         ELSE "null"

\* What a request to the server can meet: "throws" (fetch rejects: nothing
\* listens, the connection breaks), "error" (a status that is not ok),
\* "malformed" (the body is not JSON, or has no topImages array), "ok".
Responses(alive) == IF alive = {} THEN {"throws"} ELSE {"throws", "error", "malformed", "ok"}

\* a status that is not ok handed on as if it were a result
MatchOutcomeIgnoringStatus(response) ==
    IF response \in {"ok", "error"} THEN "result" ELSE "null"

\* lines 240-258: !response.ok returns null; response.json() or
\* result.topImages.length throwing, like fetch rejecting, lands in the catch
\* block, which returns null
MatchOutcome(response) == IF response = "ok" THEN "result" ELSE "null"

\* fs.existsSync turns true for the binary and the database
BinaryInstalled ==
    /\ ~installed
    /\ installed' = TRUE
    /\ UNCHANGED <<serverProcess, serverReady, processes, startCalls, matchCalls,
                   cvars, svars, bvars, xvars, wvars, kvars, lvars>>

StartMayArrive(c) ==
    startCalls[c].pc = "idle" /\ \A d \in StartCallIds : d < c => startCalls[d].pc # "idle"

\* lines 82-85
StartNotAvailable(c) ==
    /\ StartMayArrive(c)
    /\ ~installed
    /\ startCalls' = [startCalls EXCEPT ![c] = [pc |-> "returned", result |-> FALSE]]
    /\ UNCHANGED <<installed, serverProcess, serverReady, processes, matchCalls,
                   cvars, svars, bvars, xvars, wvars, kvars, lvars>>

\* lines 87-90
StartAlreadyRunning(c) ==
    /\ StartMayArrive(c)
    /\ installed
    /\ serverProcess # 0
    /\ startCalls' = [startCalls EXCEPT ![c] = [pc |-> "returned", result |-> TRUE]]
    /\ UNCHANGED <<installed, serverProcess, serverReady, processes, matchCalls,
                   cvars, svars, bvars, xvars, wvars, kvars, lvars>>

\* lines 92-117: the process is spawned and the call waits for the server
StartSpawns(c) ==
    /\ StartMayArrive(c)
    /\ installed
    /\ serverProcess = 0
    /\ serverProcess' = c
    /\ processes' = processes \cup {c}
    /\ startCalls' = [startCalls EXCEPT ![c].pc = "waiting"]
    /\ UNCHANGED <<installed, serverReady, matchCalls,
                   cvars, svars, bvars, xvars, wvars, kvars, lvars>>

\* lines 131-134: spawn throws
StartSpawnThrows(c) ==
    /\ StartMayArrive(c)
    /\ installed
    /\ serverProcess = 0
    /\ startCalls' = [startCalls EXCEPT ![c] = [pc |-> "returned", result |-> FALSE]]
    /\ UNCHANGED <<installed, serverProcess, serverReady, processes, matchCalls,
                   cvars, svars, bvars, xvars, wvars, kvars, lvars>>

\* lines 119-123: waitForServer got an answer (ok or 400) within 5 seconds
StartReady(c) ==
    /\ startCalls[c].pc = "waiting"
    /\ processes # {}
    /\ serverReady' = TRUE
    /\ startCalls' = [startCalls EXCEPT ![c] = [pc |-> "returned", result |-> TRUE]]
    /\ UNCHANGED <<installed, serverProcess, processes, matchCalls,
                   cvars, svars, bvars, xvars, wvars, kvars, lvars>>

\* stop(): the process is killed (it exits later) and the fields are reset
ProcessAfterStop(process) == 0
ReadyAfterStop(process, ready) == IF process # 0 THEN FALSE ELSE ready

\* lines 124-128: waitForServer timed out; stop() and return false
StartTimesOut(c) ==
    /\ startCalls[c].pc = "waiting"
    /\ serverProcess' = ProcessAfterStop(serverProcess)
    /\ serverReady' = ReadyAfterStop(serverProcess, serverReady)
    /\ startCalls' = [startCalls EXCEPT ![c] = [pc |-> "returned", result |-> FALSE]]
    /\ UNCHANGED <<installed, processes, matchCalls,
                   cvars, svars, bvars, xvars, wvars, kvars, lvars>>

\* lines 140-147, called on deactivation
Stop ==
    /\ serverProcess # 0
    /\ serverProcess' = ProcessAfterStop(serverProcess)
    /\ serverReady' = ReadyAfterStop(serverProcess, serverReady)
    /\ UNCHANGED <<installed, processes, startCalls, matchCalls,
                   cvars, svars, bvars, xvars, wvars, kvars, lvars>>

\* lines 111-115: the 'exit' handler of process p, whichever process the
\* field holds by then
ServerExits(p) ==
    /\ p \in processes
    /\ processes' = processes \ {p}
    /\ serverProcess' = 0
    /\ serverReady' = FALSE
    /\ UNCHANGED <<installed, startCalls, matchCalls,
                   cvars, svars, bvars, xvars, wvars, kvars, lvars>>

MatchMayArrive(c) ==
    matchCalls[c].pc = "idle" /\ \A d \in MatchCallIds : d < c => matchCalls[d].pc # "idle"

\* lines 218-221
MatchNotReady(c) ==
    /\ MatchMayArrive(c)
    /\ ~serverReady
    /\ matchCalls' = [matchCalls EXCEPT ![c].pc = "returned", ![c].result = "null",
                                        ![c].ready = FALSE]
    /\ UNCHANGED <<installed, serverProcess, serverReady, processes, startCalls,
                   cvars, svars, bvars, xvars, wvars, kvars, lvars>>

\* lines 225-229
MatchNoDistribution(c, img) ==
    /\ MatchMayArrive(c)
    /\ serverReady
    /\ ParseImageDistribution(img) = "null"
    /\ matchCalls' = [matchCalls EXCEPT ![c].pc = "returned", ![c].result = "null",
                                        ![c].ready = TRUE]
    /\ UNCHANGED <<installed, serverProcess, serverReady, processes, startCalls,
                   cvars, svars, bvars, xvars, wvars, kvars, lvars>>

\* lines 231-244: the request is sent
MatchSends(c, img) ==
    /\ MatchMayArrive(c)
    /\ serverReady
    /\ ParseImageDistribution(img) # "null"
    /\ matchCalls' = [matchCalls EXCEPT ![c].pc = "fetching", ![c].ready = TRUE]
    /\ UNCHANGED <<installed, serverProcess, serverReady, processes, startCalls,
                   cvars, svars, bvars, xvars, wvars, kvars, lvars>>

\* lines 246-258
MatchAnswered(c, response) ==
    /\ matchCalls[c].pc = "fetching"
    /\ response \in Responses(processes)
    /\ matchCalls' = [matchCalls EXCEPT ![c].pc = "returned", ![c].response = response,
                                        ![c].result = MatchOutcome(response)]
    /\ UNCHANGED <<installed, serverProcess, serverReady, processes, startCalls,
                   cvars, svars, bvars, xvars, wvars, kvars, lvars>>

NextCrystalBall ==
    \/ BinaryInstalled
    \/ \E c \in StartCallIds : StartNotAvailable(c)
    \/ \E c \in StartCallIds : StartAlreadyRunning(c)
    \/ \E c \in StartCallIds : StartSpawns(c)
    \/ \E c \in StartCallIds : StartSpawnThrows(c)
    \/ \E c \in StartCallIds : StartReady(c)
    \/ \E c \in StartCallIds : StartTimesOut(c)
    \/ Stop
    \/ \E p \in StartCallIds : ServerExits(p)
    \/ \E c \in MatchCallIds : MatchNotReady(c)
    \/ \E c \in MatchCallIds, img \in ImageRefs : MatchNoDistribution(c, img)
    \/ \E c \in MatchCallIds, img \in ImageRefs : MatchSends(c, img)
    \/ \E c \in MatchCallIds, r \in {"throws", "error", "malformed", "ok"} : MatchAnswered(c, r)

SpecCrystalBall == InitCrystalBall /\ [][NextCrystalBall]_vars

(***************************************************************************)
(* Slack approval bot (FEATURES.md): /request-image, approve, deny         *)
(***************************************************************************)
InitSlack == ConverterIdle /\ ScannerIdle /\ OthersIdle

\* config.slack.adminUserIds, and the members of the workspace who can reach
\* the buttons of the approval message
AdminUserIds == {"U_ADMIN", "U_ADMIN2"}
SlackUsers == {"U_ADMIN", "U_ADMIN2", "U_MEMBER"}
\* parsed.team, and config.autoApproveTeams
Teams == {"dev", "payments"}
AutoApproveTeams == {"dev"}

\* the next id generateRequestId hands out
IsNextRequest(r) ==
    requests[r].status = "none" /\ \A q \in RequestIds : q < r => requests[q].status # "none"

\* the request command for a team that is not auto-approved: the request is
\* stored pending and the approval message posted
RequestSubmitted(r, team) ==
    /\ IsNextRequest(r)
    /\ team \notin AutoApproveTeams
    /\ requests' = [requests EXCEPT ![r].status = "pending", ![r].by = ""]
    /\ UNCHANGED <<repos, approving, cvars, svars, bvars, xvars, wvars, kvars, mvars>>

\* the request command for an auto-approved team, createRepo succeeding
RequestAutoApproved(r, team) ==
    /\ IsNextRequest(r)
    /\ team \in AutoApproveTeams
    /\ repos' = [repos EXCEPT ![r] = @ + 1]
    /\ requests' = [requests EXCEPT ![r].status = "approved", ![r].by = "auto"]
    /\ UNCHANGED <<approving, cvars, svars, bvars, xvars, wvars, kvars, mvars>>

\* the same, createRepo failing: the request stays stored as pending and no
\* approval message is posted
RequestAutoApproveFails(r, team) ==
    /\ IsNextRequest(r)
    /\ team \in AutoApproveTeams
    /\ requests' = [requests EXCEPT ![r].status = "pending", ![r].by = "auto"]
    /\ UNCHANGED <<repos, approving, cvars, svars, bvars, xvars, wvars, kvars, mvars>>

\* the approval message of request r carries the buttons
HasButtons(r) == requests[r].status # "none" /\ requests[r].by # "auto"

\* app.action('approve'): the request exists and is pending (the handler tests
\* nothing else); createRepo is awaited
ApproveBegins(user, r) ==
    /\ HasButtons(r)
    /\ requests[r].status = "pending"
    /\ <<user, r>> \notin approving
    /\ approving' = approving \cup {<<user, r>>}
    /\ UNCHANGED <<requests, repos, cvars, svars, bvars, xvars, wvars, kvars, mvars>>

\* createRepo returned: the request is marked approved by the user
ApproveProvisions(user, r) ==
    /\ <<user, r>> \in approving
    /\ approving' = approving \ {<<user, r>>}
    /\ repos' = [repos EXCEPT ![r] = @ + 1]
    /\ requests' = [requests EXCEPT ![r].status = "approved", ![r].by = user]
    /\ UNCHANGED <<cvars, svars, bvars, xvars, wvars, kvars, mvars>>

\* createRepo threw: the catch block reports the error
ApproveFails(user, r) ==
    /\ <<user, r>> \in approving
    /\ approving' = approving \ {<<user, r>>}
    /\ requests' = [requests EXCEPT ![r].errorShown = TRUE]
    /\ UNCHANGED <<repos, cvars, svars, bvars, xvars, wvars, kvars, mvars>>

\* app.action('deny'): the same two tests, then the status is set
Deny(user, r) ==
    /\ HasButtons(r)
    /\ requests[r].status = "pending"
    /\ requests' = [requests EXCEPT ![r].status = "denied", ![r].by = user]
    /\ UNCHANGED <<repos, approving, cvars, svars, bvars, xvars, wvars, kvars, mvars>>

NextSlack ==
    \/ \E r \in RequestIds, team \in Teams : RequestSubmitted(r, team)
    \/ \E r \in RequestIds, team \in Teams : RequestAutoApproved(r, team)
    \/ \E r \in RequestIds, team \in Teams : RequestAutoApproveFails(r, team)
    \/ \E user \in SlackUsers, r \in RequestIds : ApproveBegins(user, r)
    \/ \E user \in SlackUsers, r \in RequestIds : ApproveProvisions(user, r)
    \/ \E user \in SlackUsers, r \in RequestIds : ApproveFails(user, r)
    \/ \E user \in SlackUsers, r \in RequestIds : Deny(user, r)

SpecSlack == InitSlack /\ [][NextSlack]_vars

(***************************************************************************)
(* Properties of convert                                                   *)
(***************************************************************************)
Done == pc = "done"
LogIdx == 1..Len(log)
IsFromEntry(k) == log[k].ev = "from" /\ FromMatches(log[k].old)
\* a RUN whose package-install command was rewritten
IsInstallEntry(k) == log[k].ev = "run" /\ log[k].flag
SameStage(k, m) == \A j \in (k + 1)..m : log[j].ev # "from"
FirstInstallOfStage(k) ==
    /\ IsInstallEntry(k)
    /\ \A j \in 1..(k - 1) : IsInstallEntry(j) => ~SameStage(j, k)
StageHasInstall(k) == \E m \in LogIdx : m > k /\ IsInstallEntry(m) /\ SameStage(k, m)
NewTag(k) == FromTag(log[k].new)
ResolvesToMinimalBase(k) == TokIncludes(FromImage(log[k].new), CHAINGUARD_BASE)

\* the chained sub-commands of a RUN command
SubCommands(line) == IF Len(line.toks) <= 1 THEN <<>> ELSE SplitOnAnd(Tail(line.toks), <<>>)
InSeq(x, seq) == \E k \in 1..Len(seq) : seq[k] = x
\* an index-refresh or clean sub-command: <manager> [-y] update|clean [all]
IsMaintenance(cmd) ==
    /\ Len(cmd) >= 2
    /\ cmd[1] \in {APT_GET, APT, DNF, YUM}
    /\ \/ Len(cmd) = 2 /\ cmd[2] \in {UPDATE, CLEAN}
       \/ Len(cmd) = 3 /\ cmd[2] = DASH_Y /\ cmd[3] \in {UPDATE, CLEAN}
       \/ Len(cmd) = 3 /\ cmd[2] \in {UPDATE, CLEAN} /\ cmd[3] = ALL
\* a sub-command no rewrite rule applies to
IsPlainWork(cmd) ==
    /\ ~IsMaintenance(cmd)
    /\ ~InstallTest(cmd, AptManagers \cup DnfManagers)
    /\ ~MentionsUserManagement(Ln(0, cmd))

\* C1: converting the output of convert(M) a second time yields no Change record.
C1_SecondConversionChangesNothing == (Done /\ pass = 2) => changes = <<>>

\* C3: convert returns a result for every input text and never raises.
C3_ConvertNeverRaises == pc # "raised"

\* C4: an input line the engine does not rewrite (a line passed through, a FROM
\* that does not parse, a RUN command left as it is) appears in the output exactly
\* as in the input, and no Change record is emitted for it.
C4_UnrewrittenLineUnchanged ==
    \A k \in LogIdx :
        (log[k].ev \in {"pass", "from", "run"} /\ log[k].new = log[k].old) =>
            /\ converted[log[k].at] = lines[log[k].line + 1]
            /\ \A c \in 1..Len(changes) : changes[c].line # log[k].line

\* C5: when index-refresh/clean commands are chained by && with real work in one
\* RUN command, every chained sub-command that is real work and that no rewrite
\* rule applies to is still a sub-command of the rewritten command.
C5_ChainedWorkKept ==
    \A k \in LogIdx :
        (log[k].ev = "run"
            /\ \E m \in 1..Len(SubCommands(log[k].old)) : IsMaintenance(SubCommands(log[k].old)[m])) =>
            \A m \in 1..Len(SubCommands(log[k].old)) :
                IsPlainWork(SubCommands(log[k].old)[m]) =>
                    InSeq(SubCommands(log[k].old)[m], SubCommands(log[k].new))

\* C6: a RUN command consisting solely of index-refresh/clean commands converts
\* to an empty replacement.
C6_MaintenanceOnlyDropped ==
    \A k \in LogIdx :
        (log[k].ev = "run"
            /\ log[k].old.toks[1] = RUN
            /\ SubCommands(log[k].old) # <<>>
            /\ \A m \in 1..Len(SubCommands(log[k].old)) : IsMaintenance(SubCommands(log[k].old)[m])) =>
            log[k].new.toks = <<>>

C9_TwoMinimalBaseStages ==
    Done =>
        \A k, m \in LogIdx :
            (/\ k < m
             /\ IsFromEntry(k) /\ IsFromEntry(m)
             /\ \A j \in (k + 1)..(m - 1) : log[j].ev # "from"
             /\ ResolvesToMinimalBase(k) /\ ResolvesToMinimalBase(m)
             /\ log[k].flag /\ ~log[m].flag) =>
                /\ TokEndsWith(NewTag(k), DEV)
                /\ NewTag(m) = LATEST

(***************************************************************************)
(* Properties of scanImage                                                 *)
(***************************************************************************)
InFlight(img) == {c \in CallIds : calls[c].image = img /\ calls[c].pc \in {"probing", "scanning"}}

\* C2: a scan request that arrives while another request for the same image is
\* still pending starts no external process and is handed the pending marker, so
\* the two requests together make exactly one external scan invocation (the first
\* one's); at most one is in flight per image.
C2_PendingScanNotRepeated ==
    /\ \A c \in CallIds :
          calls[c].pendingOnArrival =>
              /\ ~calls[c].probed
              /\ ~calls[c].invoked
              /\ calls[c].pc = "returned"
              /\ calls[c].result = InProgress
    /\ \A img \in Images : Cardinality(InFlight(img)) <= 1

\* two requests for one image, the second arrived while the first was pending,
\* both returned, one external scan made
C2_Witness ==
    \E c, d \in CallIds :
        /\ c # d
        /\ calls[c].image = calls[d].image
        /\ calls[c].pendingOnArrival
        /\ calls[c].pc = "returned"
        /\ calls[d].pc = "returned"
        /\ calls[d].invoked
        /\ invocations[calls[d].image] = 1

\* C10: a request for an image whose cache entry is the error result of a failed
\* scan, stored less than the TTL ago, reuses that entry and starts no external
\* process.
C10_FailureReusedUntilExpiry ==
    \A c \in CallIds : calls[c].failedOnArrival => ~calls[c].probed

(***************************************************************************)
(* Properties of scanImage, continued                                      *)
(***************************************************************************)
\* call c enters scanImage in this step
Arrives(c) == calls[c].pc = "idle" /\ calls'[c].pc # "idle"

IsPending(img) == scanCache[img].present /\ scanCache[img].scanning
IsComplete(r) == r.present /\ ~r.scanning /\ r.scannedAt # -1

SeveritySum(r) == r.critical + r.high + r.medium + r.low + r.negligible

\* C11: once the tool was found missing for an image, a later scan request for
\* that image returns the unavailable result and starts no external process,
\* neither the probe nor the scan.
C11_UnavailableIsTerminal ==
    [][\A c \in CallIds :
          (Arrives(c) /\ scanCache[calls'[c].image] = NotInstalled)
              => /\ calls'[c].pc = "returned"
                 /\ calls'[c].result = NotInstalled
                 /\ probes' = probes
                 /\ invocations' = invocations]_vars

\* C12: a request for an image whose cached result is a completed scan returns
\* that result and starts no external process while less than 24 hours have
\* passed since the scan completed; from 24 hours on, the request starts a new
\* scan.
C12_CompletedResultReusedFor24h ==
    [][\A c \in CallIds :
          LET img == calls'[c].image
              cached == scanCache[img]
          IN  (Arrives(c) /\ IsComplete(cached)) =>
                  IF now - cached.scannedAt < SCAN_CACHE_TTL
                  THEN /\ calls'[c].pc = "returned"
                       /\ calls'[c].result = cached
                       /\ scanCache' = scanCache
                       /\ probes' = probes
                       /\ invocations' = invocations
                  ELSE /\ calls'[c].pc = "probing"
                       /\ scanCache'[img] = InProgress
                       /\ probes' = probes + 1]_vars

\* the first request scans, the second reuses the result 12 hours later, the
\* third starts a new scan when 24 hours have passed
C12_Witness ==
    /\ calls[1].invoked /\ calls[1].pc = "returned" /\ IsComplete(calls[1].result)
    /\ calls[2].image = calls[1].image /\ calls[2].pc = "returned"
    /\ ~calls[2].probed /\ calls[2].result = calls[1].result
    /\ calls[3].image = calls[1].image /\ calls[3].probed
    /\ now - calls[1].result.scannedAt >= SCAN_CACHE_TTL

\* C13: in every result held in the cache or returned by a call, the five
\* severity counts sum to cveCount.
C13_SeverityCountsSumToTotal ==
    /\ \A img \in Images :
          scanCache[img].present => SeveritySum(scanCache[img]) = scanCache[img].cveCount
    /\ \A c \in CallIds :
          calls[c].pc = "returned" => SeveritySum(calls[c].result) = calls[c].result.cveCount

\* C15: an image whose entry is the in-progress marker eventually has another
\* entry.
C15_PendingEventuallyLeaves ==
    \A img \in Images : IsPending(img) ~> ~IsPending(img)

(***************************************************************************)
(* Properties of convert, continued                                        *)
(***************************************************************************)
IsRunEntry(j) == log[j].ev = "run"

\* the number of physical lines the RUN command of entry j spans in the input
PhysicalLines(j) == ReadMultilineCommand(lines, log[j].line).lineCount

\* the number of output lines emitted for entry j
EmittedLines(j) ==
    (IF j < Len(log) THEN log[j + 1].at ELSE Len(converted) + 1) - log[j].at

IsLongOrChained(line) ==
    /\ Len(line.toks) >= 2
    /\ \/ TextLen(Tail(line.toks)) >= LongCommand
       \/ Len(SubCommands(line)) >= 2

\* C16: a RUN command that spans k >= 2 physical lines is converted as the one
\* logical line that joins them, and the rewritten line is emitted as exactly k
\* lines when it is long or has several chained sub-commands, as one line
\* otherwise.
C16_MultilineKeepsLineCount ==
    Done =>
        \A j \in LogIdx :
            (IsRunEntry(j) /\ PhysicalLines(j) >= 2) =>
                /\ log[j].old = ReadMultilineCommand(lines, log[j].line).fullCommand
                /\ EmittedLines(j) = IF IsLongOrChained(log[j].new) THEN PhysicalLines(j)
                                     ELSE 1

\* the lookup of the image table in the stated order, over the table's own entries
HasEntry(key) == \E k \in 1..Len(MappingsImages) : MappingsImages[k][1] = key
EntryOf(key) ==
    MappingsImages[CHOOSE k \in 1..Len(MappingsImages) : MappingsImages[k][1] = key][2]
LookupInOrder(lookupKey, baseImage) ==
    IF HasEntry(lookupKey) THEN EntryOf(lookupKey)
    ELSE IF HasEntry(baseImage) THEN EntryOf(baseImage)
    ELSE IF FirstWildcard(baseImage) # 0 THEN MappingsImages[FirstWildcard(baseImage)][2]
    ELSE baseImage

\* line k (1-based) is a FROM instruction convertFrom was called on
FromAttempted(k) ==
    \/ \E j \in LogIdx : log[j].ev = "from" /\ log[j].line = k - 1
    \/ pc = "raised" /\ k = i + 1

\* C17: the image lookup of a FROM instruction gives the entry of name:tag, else
\* the entry of the bare name, else the target of the first-registered wildcard
\* pattern the bare name starts with, else the bare name itself.
C17_LookupOrder ==
    \A k \in 1..Len(lines) :
        (FromAttempted(k) /\ FromMatches(lines[k])) =>
            FindImageMapping(lines[k].toks[2], FromImage(lines[k]))
                = [kind |-> "string",
                   val |-> LookupInOrder(lines[k].toks[2], FromImage(lines[k]))]

\* C18: every sub-command the user-management substitution produces from a RUN
\* command is a sub-command of the converted command, whatever the package
\* conversion did to the line.
C18_UserManagementKept ==
    Done =>
        \A j \in LogIdx :
            (IsRunEntry(j) /\ MentionsUserManagement(log[j].old)) =>
                LET substituted == SubCommands(ConvertUserManagement(log[j].old))
                IN  \A n \in 1..Len(substituted) :
                        Head(substituted[n]) \in {ADDUSER, ADDGROUP}
                            => InSeq(substituted[n], SubCommands(log[j].new))

(***************************************************************************)
(* Properties of fetchVexFeed and of package-search                        *)
(***************************************************************************)
\* call c of fetchVexFeed ends in this step with a failed fetch
VexFailsNow(c) ==
    vexCalls[c].pc = "fetching" /\ vexCalls'[c].pc = "returned"
        /\ vexCalls'[c].outcome = "failed"

\* C19: a failed fetch of the remediation feed leaves the cached feed and its
\* timestamp as they were, hands the caller an empty map when the cache was
\* never populated, and raises no exception to the caller.
C19_FailedFetchKeepsCache ==
    [][\A c \in FeedCallIds :
          VexFailsNow(c) =>
              /\ cachedVexData' = cachedVexData
              /\ vexCacheTimestamp' = vexCacheTimestamp
              /\ ~vexCalls'[c].raised
              /\ ~cachedVexData.populated => vexCalls'[c].result = EmptyMap]_vars

\* a fetch failed after the cache was populated and had expired, and the
\* cache still holds the feed fetched before
C19_Witness ==
    \E c, d \in FeedCallIds :
        /\ vexCalls[d].pc = "returned" /\ vexCalls[d].outcome = "fetched"
        /\ vexCalls[d].result.data # {}
        /\ vexCalls[c].pc = "returned" /\ vexCalls[c].outcome = "failed"
        /\ d < c
        /\ cachedVexData = vexCalls[d].result
        /\ now - vexCacheTimestamp >= VEX_CACHE_TTL

\* C20: a package queried when the catalog index could not be fetched is
\* reported as existing.
C20_AssumeExistsOnFailure ==
    \A c \in FeedCallIds :
        (wolfiCalls[c].pc = "returned" /\ wolfiCalls[c].outcome = "failed")
            => wolfiCalls[c].exists

(***************************************************************************)
(* Properties of scanImages                                                *)
(***************************************************************************)
\* the calls of the batch that await an external process
BatchInFlight == {c \in BatchCallIds : calls[c].pc \in {"probing", "scanning"}}

\* C14: while a batch is scanned, at most 3 external processes are in flight,
\* all of them started for images of the group being processed.
C14_AtMostThreeInFlight ==
    /\ Cardinality(BatchInFlight) <= 3
    /\ BatchInFlight # {} => batch.pc = "awaiting" /\ BatchInFlight \subseteq ChunkCalls

\* three processes in flight while a fourth image of the batch waits its turn
C14_Witness ==
    /\ Cardinality(BatchInFlight) = 3
    /\ Len(batch.images) > 3
    /\ \E c \in BatchCallIds : c <= Len(batch.images) /\ calls[c].pc = "idle"

(***************************************************************************)
(* Properties of ChainctlClient                                            *)
(***************************************************************************)
\* C21: a value of the authentication state or of the entitlement state that a
\* call is served from the cache was obtained from the CLI at most 5 minutes
\* before, whatever calls for the other kind of state were made in between.
C21_CachedStateAtMostFiveMinutesOld ==
    \A c \in ChainctlCallIds :
        (chainctlCalls[c].pc = "returned" /\ chainctlCalls[c].fromCache)
            => chainctlCalls[c].age <= 5

(***************************************************************************)
(* Properties of checkRemediationAvailability                              *)
(***************************************************************************)

\* remediations.reduce((sum, r) => sum + r.cvesFixed.length, 0)
RECURSIVE TotalCves(_)
TotalCves(remediations) ==
    IF remediations = <<>> THEN 0
    ELSE Len(Head(remediations).cvesFixed) + TotalCves(Tail(remediations))

Answered(c) == vexCalls[c].pc = "answered"

\* the feed the call worked on is the one parsed from the two-fix document
OnTwoFixesFeed(c) == vexCalls[c].result = MapOf(ParseVexData(TwoFixesFeed))

\* the feed holds no entry for the package under any label of the registry asked for
NothingFound(c) ==
    \A e \in vexCalls[c].result.data :
        ~(/\ e[1][2] = vexCalls[c].packageName
          /\ e[1][1] \in {vexCalls[c].ecosystem, NormalizeEcosystem(vexCalls[c].ecosystem)})

\* C28: a lookup of (requests, python) on the feed that holds two fix records
\* under pypi:requests returns the two records for that package, whose fixed
\* vulnerabilities count 2; a lookup that finds nothing returns the empty list.
C28_LookupNormalisesEcosystem ==
    \A c \in FeedCallIds :
        Answered(c) =>
            /\ (OnTwoFixesFeed(c) /\ vexCalls[c].packageName = <<"requests">>
                    /\ vexCalls[c].ecosystem = "python")
                   => /\ Len(vexCalls[c].remediations) = 2
                      /\ TotalCves(vexCalls[c].remediations) = 2
                      /\ \A k \in 1..2 :
                            /\ vexCalls[c].remediations[k].packageName = <<"requests">>
                            /\ vexCalls[c].remediations[k].ecosystem = "pypi"
            /\ NothingFound(c) => vexCalls[c].remediations = <<>>
            /\ ~vexCalls[c].raised

\* a lookup of (requests, python) answered from the two-fix feed, and another
\* lookup answered with the empty list
C28_Witness ==
    /\ \E c \in FeedCallIds :
          /\ Answered(c) /\ OnTwoFixesFeed(c)
          /\ vexCalls[c].packageName = <<"requests">> /\ vexCalls[c].ecosystem = "python"
          /\ TotalCves(vexCalls[c].remediations) = 2
    /\ \E c \in FeedCallIds :
          /\ Answered(c) /\ vexCalls[c].result.data # {} /\ NothingFound(c)
          /\ vexCalls[c].remediations = <<>>

(***************************************************************************)
(* Properties of overlapping first-use fetches                             *)
(***************************************************************************)

\* this step is the cache write of call c's fetch
WritesCache(c) == vexCalls[c].pc = "fetching" /\ vexCalls'[c].outcome = "fetched"

\* d's fetch, begun on first use like c's, has already written the cache
WroteBefore(d, c) ==
    /\ d # c
    /\ vexCalls[d].firstUse /\ vexCalls[c].firstUse
    /\ vexCalls[d].outcome = "fetched"

FromNode18Alpine == Ln(0, <<FROM, NODE_18_ALPINE>>)
InstallCurl == Ln(0, <<RUN, APT_GET, INSTALL, DASH_Y, CURL>>)
FromNode18Dev == Ln(0, <<FROM, CgrPrefix \o <<"node", ":", "18">> \o DEV>>)
ApkAddCurl == Ln(0, <<RUN, W("apk"), W("add"), <<"-", "-", "no", "-", "cache">>, CURL>>)

\* log entry k is the FROM of the scenario, and the input line after it the install
ScenarioAt(k) ==
    /\ log[k].ev = "from" /\ log[k].old = FromNode18Alpine
    /\ log[k].line + 2 <= Len(lines)
    /\ lines[log[k].line + 2] = InstallCurl

\* C24: FROM node:18-alpine followed by RUN apt-get install -y curl converts to
\* FROM <registry>/node:18-dev, then an inserted USER root, then
\* RUN apk add --no-cache curl, the three lines adjacent in the output.
C24_ScenarioNodeAlpineCurl ==
    Done =>
        \A k \in LogIdx :
            ScenarioAt(k) =>
                /\ log[k].at + 2 <= Len(converted)
                /\ converted[log[k].at] = FromNode18Dev
                /\ converted[log[k].at + 1] = UserRootLine
                /\ converted[log[k].at + 2] = ApkAddCurl

\* the scenario converted as a whole input
C24_Witness ==
    /\ Done
    /\ lines = <<FromNode18Alpine, InstallCurl>>
    /\ \E k \in LogIdx : ScenarioAt(k)
    /\ converted = <<FromNode18Dev, UserRootLine, ApkAddCurl>>

\* what follows the leading dotted numeric version of a tag
AfterVersion(tag) == SubSeq(tag, VersionPrefix(tag) + 1, Len(tag))

\* a dotted numeric version, alone or followed by a qualifier that is not numeric
IsVersionTag(tag) ==
    /\ VersionPrefix(tag) > 0
    /\ AfterVersion(tag) # <<>> => Head(AfterVersion(tag)) \notin DigitAtoms \cup {"."}

\* the output tag without the development-variant suffix
VersionPart(tag) ==
    IF TokEndsWith(tag, DEV) THEN SubSeq(tag, 1, Len(tag) - Len(DEV)) ELSE tag

\* C25: when the input tag of a rewritten FROM is a dotted numeric version,
\* alone or followed by a non-numeric qualifier, and the image is not the
\* minimal base, the version part of the output tag is the first two
\* dot-separated components of the input version, without the qualifier.
C25_TagTruncatedToMajorMinor ==
    \A k \in LogIdx :
        (IsFromEntry(k) /\ IsVersionTag(FromTag(log[k].old)) /\ ~ResolvesToMinimalBase(k)) =>
            VersionPart(NewTag(k)) = Truncated(FromTag(log[k].old))

\* pkg has an own entry in the mapping table of the distribution
HasPackageEntry(pkg, distro) ==
    \E m \in 1..Len(MappingsPackages[distro]) : MappingsPackages[distro][m][1] = pkg

\* C26: every package of a rewritten apt install command that has no entry in the
\* debian mapping table is a word of the rewritten command.
C26_UnmappedPackageKept ==
    \A k \in LogIdx :
        (IsInstallEntry(k) /\ InstallTest(log[k].old.toks, AptManagers)) =>
            \A m \in 1..Len(ExtractAptPackages(log[k].old)) :
                ~HasPackageEntry(ExtractAptPackages(log[k].old)[m], "debian") =>
                    InSeq(ExtractAptPackages(log[k].old)[m], log[k].new.toks)

IsEmptyText(line) == line.toks = <<>> /\ line.indent = 0

\* C27: no Change record has both its old text and its new text empty.
C27_ChangeNeverEmptyBothSides ==
    \A c \in 1..Len(changes) : ~(IsEmptyText(changes[c].old) /\ IsEmptyText(changes[c].new))

\* a conversion that recorded a Change with an empty old text (the inserted
\* line) and a Change with an empty new text (a dropped command)
C27_Witness ==
    /\ Done
    /\ \E c \in 1..Len(changes) : IsEmptyText(changes[c].old) /\ ~IsEmptyText(changes[c].new)
    /\ \E c \in 1..Len(changes) : ~IsEmptyText(changes[c].old) /\ IsEmptyText(changes[c].new)

UserNonrootLine == Ln(0, <<W("USER"), W("nonroot")>>)

\* C29: when a conversion has inserted USER root in a stage, the output has a
\* USER nonroot line after the inserted line, and the Change records include
\* one of type user-reset.
C29_UserResetAfterPackages ==
    Done =>
        \A k \in LogIdx :
            log[k].ev = "inject" =>
                /\ \E p \in (log[k].at + 1)..Len(converted) : converted[p] = UserNonrootLine
                /\ \E c \in 1..Len(changes) : changes[c].type = "user-reset"

(***************************************************************************)
(* Properties of matchImage                                                *)
(***************************************************************************)

\* the service was absent, not started or not ready when the call arrived, or
\* its request met an unreachable server or an error answer
ServiceUnavailableFor(c) ==
    \/ ~matchCalls[c].ready
    \/ matchCalls[c].response \in {"throws", "error"}

\* C23: a match request never raises; when the service is absent, not started,
\* not ready, unreachable or answers with an error, the request returns null;
\* and a match request changes nothing of the converter, the scanner or the
\* other caches.
C23_MatchDegradesToNull ==
    /\ \A c \in MatchCallIds :
          /\ ~matchCalls[c].raised
          /\ (matchCalls[c].pc = "returned" /\ ServiceUnavailableFor(c)) =>
                 matchCalls[c].result = "null"
    /\ ConverterIdle /\ ScannerIdle /\ BatchIdle /\ VexIdle /\ WolfiIdle /\ ChainctlIdle

\* one request found the server not ready and another, sent to a ready server,
\* met an error answer; both returned null
C23_Witness ==
    \E c, d \in MatchCallIds :
        /\ matchCalls[c].pc = "returned" /\ ~matchCalls[c].ready
        /\ matchCalls[c].result = "null"
        /\ matchCalls[d].pc = "returned" /\ matchCalls[d].ready
        /\ matchCalls[d].response = "error"
        /\ matchCalls[d].result = "null"

(***************************************************************************)
(* Properties of the approval bot                                          *)
(***************************************************************************)

\* C30: a step of the approve or deny handler of a user who is not listed in
\* ADMIN_USER_IDS changes no request's status and provisions no image.
C30_OnlyAdminsApproveOrDeny ==
    [][\A user \in SlackUsers \ AdminUserIds, r \in RequestIds :
          (ApproveBegins(user, r) \/ ApproveProvisions(user, r) \/ ApproveFails(user, r)
              \/ Deny(user, r))
            => /\ \A q \in RequestIds : requests'[q].status = requests[q].status
               /\ repos' = repos]_vars

\* C39: createRepo is served at most once for a request, and a request that is
\* approved or denied keeps that status in every later step.
C39_RequestDecidedOnce ==
    [][\A r \in RequestIds :
          /\ repos'[r] <= 1
          /\ requests[r].status \in {"approved", "denied"} =>
                 requests'[r].status = requests[r].status]_vars

(***************************************************************************)
(* Properties of start and stop                                            *)
(***************************************************************************)

\* this step is a call of stop(): the method itself, or start giving up
StopCalled == Stop \/ \E c \in StartCallIds : StartTimesOut(c)

\* C37: the client stops being ready only in a step that calls stop() or that
\* delivers the exit of a server process; and the exit of a process that is
\* not the one the client holds changes neither the handle nor the readiness.
C37_LateExitLeavesNewerServer ==
    [][/\ (serverReady /\ ~serverReady') =>
              (StopCalled \/ \E p \in StartCallIds : ServerExits(p))
       /\ \A p \in StartCallIds :
              (ServerExits(p) /\ serverProcess \notin {0, p}) =>
                  (serverProcess' = serverProcess /\ serverReady' = serverReady)]_vars

\* call c of start returns in this step
StartReturns(c) == startCalls[c].pc # "returned" /\ startCalls'[c].pc = "returned"

\* C38: whenever a call of start returns true, the client is ready for match
\* requests (serverReady holds) when it returns.
C38_StartTrueOnlyWhenReady ==
    [][\A c \in StartCallIds :
          (StartReturns(c) /\ startCalls'[c].result) => serverReady']_vars

(***************************************************************************)
(* Properties of a lookup after a failed refresh                           *)
(***************************************************************************)

\* C36: a lookup whose fetch was a refresh of a feed cached earlier (the cache
\* was populated and no longer fresh when the call arrived) and failed returns
\* the records the cached feed has for the package.
C36_LookupServedFromPriorCache ==
    \A c \in FeedCallIds :
        (Answered(c) /\ vexCalls[c].outcome = "failed" /\ ~vexCalls[c].firstUse
            /\ vexCalls[c].cacheLeft.populated) =>
            vexCalls[c].remediations =
                FeedGet(vexCalls[c].cacheLeft,
                        <<NormalizeEcosystem(vexCalls[c].ecosystem), vexCalls[c].packageName>>)

(***************************************************************************)
(* Properties of the scanner's exported functions                          *)
(***************************************************************************)

\* C33: at most one external scan invocation (the probe and the scan that
\* follows it) for an image is in flight at any time, whatever the interleaving
\* of scanImage calls and clearScanCache.
C33_OneScanInFlightPerImage == \A img \in Images : Cardinality(InFlight(img)) <= 1

\* the hover uses the entry as a result: cached && !cached.scanning
UsableByHover(r) == r.present /\ ~r.scanning

\* C35: a read of getCachedScan never hands the hover a completed scan whose
\* scannedAt lies more than 24 hours before the read.
C35_NoStaleScanHandedOut ==
    \A c \in CallIds :
        (calls[c].pc = "read" /\ UsableByHover(calls[c].result) /\ IsComplete(calls[c].result)) =>
            calls[c].readAt - calls[c].result.scannedAt <= SCAN_CACHE_TTL

(***************************************************************************)
(* Properties of convert: frame and privilege                              *)
(***************************************************************************)

\* C31: when convert returns no Change record, the converted lines are the
\* input lines.
C31_NoChangeMeansIdentical == (Done /\ changes = <<>>) => converted = lines

IsUserDirective(line) == line.toks # <<>> /\ Head(line.toks) = W("USER")

\* output positions before p that hold a USER or FROM line
UserOrFromBefore(p) ==
    {q \in 1..(p - 1) : IsUserDirective(converted[q]) \/ IsFromLine(converted[q])}

\* the USER directive in effect at output position p is USER root: the nearest
\* USER or FROM line before p is USER root
RootInEffectAt(p) ==
    /\ UserOrFromBefore(p) # {}
    /\ converted[CHOOSE q \in UserOrFromBefore(p) : \A h \in UserOrFromBefore(p) : h <= q]
           = UserRootLine

\* C32: in the output of a conversion every rewritten package-install command
\* has USER root as the nearest preceding USER directive of its stage.
C32_InstallRunsAsRoot ==
    Done => \A k \in LogIdx : IsInstallEntry(k) => RootInEffectAt(log[k].at)

\* the aliases declared by the FROM lines before input line j (counted from 1)
AliasesBefore(j) ==
    {lines[h].toks[4] : h \in {g \in 1..(j - 1) : IsFromLine(lines[g]) /\ FromMatches(lines[g])
                                                   /\ Len(lines[g].toks) = 4}}

\* the FROM names an alias of an earlier stage, or scratch
NamesStageOrScratch(k) ==
    /\ log[k].ev = "from" /\ FromMatches(log[k].old)
    /\ FromTag(log[k].old) = <<>>
    /\ \/ FromImage(log[k].old) = W("scratch")
       \/ FromImage(log[k].old) \in AliasesBefore(log[k].line + 1)

\* C34: a FROM that names an alias declared by an earlier stage, or scratch, is
\* emitted as it is and no Change record is made for it.
C34_AliasAndScratchUntouched ==
    \A k \in LogIdx :
        NamesStageOrScratch(k) =>
            /\ log[k].new = log[k].old
            /\ \A c \in 1..Len(changes) : changes[c].line # log[k].line

====
